---- MODULE Spec2Model ----
(***************************************************************************)
(* Model of the ECP5 configuration engine of apollo_fpga/ecp5.py, as used  *)
(* through ECP5_JTAGProgrammer: configure(), the flash operations built on *)
(* the background SPI bridge, and the status / busy-wait helpers.          *)
(*                                                                         *)
(* The device is external: every register or flash status the program      *)
(* reads is a nondeterministic choice among the values below, and any      *)
(* exchange on the JTAG chain may fail with a transport error.             *)
(* Time is counted in milliseconds since the entry of the current wait.    *)
(***************************************************************************)
EXTENDS Integers, Sequences, FiniteSets, TLC

VARIABLES
    programPin,     \* ECP5Programmer._program_pin is set (constructor argument)
    op,             \* the method running ("none" when no call is in progress)
    pc,             \* the statement of that method being executed
    sub,            \* the position inside the helper the statement calls
    log,            \* commands issued so far by the call, oldest first
    leds,           \* LED patterns written by the call, oldest first
    status,         \* the ECP5 status register value read since the last command (0: none)
    busy,           \* the result of the last _device_is_busy()
    elapsed,        \* ms since the running _wait_for_completion computed its deadline
    error,          \* the exception raised by the call, if any
    part_id,        \* self.part_id
    obs,            \* what the status reads of configure() observed
    bitstream,      \* length in bytes of the bitstream argument
    erase_first,    \* flash() argument
    disable_protections, \* flash() argument
    address,        \* flash(): address of the next page
    data_remaining, \* flash(): bytes not yet programmed
    chunk,          \* flash(): length of the page being programmed
    flash_status,   \* flash status register 1, as read last by the running statement
    vin,            \* inputs of a direct _validate_status call
    vout,           \* its outcome
    length,         \* read_flash() argument
    bytes_remaining, \* read_flash(): bytes not yet read
    data,           \* read_flash(): the bytes read so far
    responses,      \* the raw responses to the READ_PAGE transfers of the call
    bitbang,        \* the JTAG chain is forced into bit-bang mode
    instruction_width, \* ECP5_JTAGRegisters._instruction_width
    data_width,     \* ECP5_JTAGRegisters._data_width
    registers,      \* the registers behind the bridge: contents and latched command
    transaction,    \* the running register_transaction: arguments, words, result
    reversed_bitstream, \* configure(): bitstream after _generate_bit_reversed_bitstream
    burst,          \* the data shifted by the LSC_BITSTREAM_BURST commands of the call
    cli_command     \* the command-line command running, and how its unconfigure() went

vars == <<programPin, op, pc, sub, log, leds, status, busy, elapsed, error, part_id,
          obs, bitstream, erase_first, disable_protections, address, data_remaining,
          chunk, flash_status, vin, vout, length, bytes_remaining, data, responses,
          bitbang, instruction_width, data_width, registers, transaction,
          reversed_bitstream, burst, cli_command>>

flashVars == <<erase_first, disable_protections, address, data_remaining, chunk, flash_status>>
validateVars == <<vin, vout>>
readVars == <<length, bytes_remaining, data, responses>>
registerVars == <<instruction_width, data_width, registers, transaction>>
burstVars == <<reversed_bitstream, burst>>

-----------------------------------------------------------------------------
(* Bounds of the model.                                                    *)

\* _wait_for_completion sleeps 10 ms per iteration; the scheduler may stretch a
\* sleep (and the busy check takes time) up to this many sleep periods.
MaxSleepStretch == 2
\* Bitstreams are up to this many flash pages, plus one byte.
MaxPages == 2
\* During one read_flash() the bridge answers at most this many transfers with
\* fewer bytes than were sent.
MaxShortAnswers == 1
\* Byte sequences handed to the byte-level helpers are up to this long.
MaxBytes == 3

-----------------------------------------------------------------------------
(* Constants of ECP5Programmer.                                            *)

STATUS_FLAG_JTAG_ACTIVE     == 16
STATUS_FLAG_DONE            == 256
STATUS_FLAG_ISC_ENABLE      == 512
STATUS_FLAG_WRITEABLE       == 1024
STATUS_FLAG_READABLE        == 2048
STATUS_FLAG_BUSY            == 4096
STATUS_FLAG_FAIL            == 8192
STATUS_FLAG_STANDARD_PRE    == 2097152
STATUS_FLAG_SPI_FAIL        == 4194304
STATUS_FLAG_EXECUTION_FAIL  == 67108864
STATUS_FLAG_ID_ERROR        == 134217728
STATUS_FLAG_INVALID_COMMAND == 268435456

STATUS_ERROR_SHIFT == 23
STATUS_ERROR_MASK  == 7

STATUS_ERROR_CODES ==
    0 :> "error unknown" @@
    1 :> "part ID mismatch" @@
    2 :> "illegal command issued" @@
    3 :> "CRC check failed" @@
    4 :> "preamble error" @@
    5 :> "user aborted configuration" @@
    6 :> "data overflow" @@
    7 :> "bitstream provides data past the device's SRAM array"

SPI_FLASH_BUSY_MASK  == 1
SPI_FLASH_WRITE_MASK == 2
SPI_FLASH_PAGE_SIZE  == 256

LED_PATTERN_IDLE   == 500
LED_PATTERN_UPLOAD == 50

\* _wait_for_completion(timeout=1): one second, in ms.
WAIT_TIMEOUT_MS == 1000
\* time.sleep(0.01) in its loop, in ms.
WAIT_SLEEP_MS   == 10

-----------------------------------------------------------------------------
(* Values the device can answer with.                                      *)

RECURSIVE SetSum(_)
SetSum(S) == IF S = {} THEN 0 ELSE LET x == CHOOSE y \in S : TRUE IN x + SetSum(S \ {x})

\* Status words the device answers during an operation: every combination of the
\* flags _validate_status decides on, with a sample of the 3-bit error code.
DeviceFlags == {STATUS_FLAG_DONE, STATUS_FLAG_ISC_ENABLE, STATUS_FLAG_FAIL,
                STATUS_FLAG_ID_ERROR, STATUS_FLAG_INVALID_COMMAND}
DeviceErrorCodes == {0, 3, 7}
StatusValues ==
    {SetSum(F) + c * (2 ^ STATUS_ERROR_SHIFT) : F \in SUBSET DeviceFlags, c \in DeviceErrorCodes}

\* Status words for direct calls of _validate_status: every named flag below
\* bit 31 and every error code.
AllFlags == DeviceFlags \cup {STATUS_FLAG_JTAG_ACTIVE, STATUS_FLAG_BUSY,
                              STATUS_FLAG_EXECUTION_FAIL, STATUS_FLAG_SPI_FAIL}
AllStatusValues ==
    {SetSum(F) + c * (2 ^ STATUS_ERROR_SHIFT) : F \in SUBSET AllFlags, c \in 0..STATUS_ERROR_MASK}

\* The four bytes READ_ID can return, first byte received first (read_id turns
\* them into a 32-bit integer, little-endian): no device (all zeros, all ones),
\* the LFE5U-12 (0x21111043), an unknown part.
PartIdBytes == {<<0, 0, 0, 0>>, <<255, 255, 255, 255>>, <<67, 16, 17, 33>>, <<255, 255, 255, 0>>}

\* Flash status register 1 values: busy and write-enable bits, and other bits.
FlashStatusValues == {0, 1, 2, 3, 252, 255}
\* Last byte of the READ_ID (0x90) response.
FlashIdValues == {0, 255, 23}

BitstreamLengths ==
    {0, 1} \cup {SPI_FLASH_PAGE_SIZE * k + d : k \in 1..MaxPages, d \in {-1, 0, 1}}
ConfigureLengths == {0, 1, SPI_FLASH_PAGE_SIZE * MaxPages + 1}
ReadLengths == BitstreamLengths

\* The k-th raw response of a call, n bytes long: each byte stands for itself.
Response(k, n) == [j \in 1..n |-> <<k, j>>]

-----------------------------------------------------------------------------
(* Exceptions.                                                             *)

NoError == [kind |-> "none", msg |-> "", detail |-> "", at |-> ""]
IOError(msg, detail, at) == [kind |-> "IOError", msg |-> msg, detail |-> detail, at |-> at]
TransportError(at) == [kind |-> "TransportError", msg |-> "", detail |-> "", at |-> at]

\* address.to_bytes(3, byteorder='big'), for an address below 2^24.
address_bytes(a) == <<(a \div 65536) % 256, (a \div 256) % 256, a % 256>>

\* A command as logged: its name, its operand (bits shifted, cycles, ms, the bit
\* of a flash status answer the program tests) and, for a page command, the
\* three address bytes that follow the opcode and its number of data bytes.
Cmd(c, a) == [cmd |-> c, arg |-> a, len |-> 0]
PageCmd(c, a, n) == [cmd |-> c, arg |-> address_bytes(a), len |-> n]

-----------------------------------------------------------------------------
(* _validate_status                                                        *)

HasFlag(s, flag) == (s \div flag) % 2 = 1

error_code(s) == (s \div (2 ^ STATUS_ERROR_SHIFT)) % (STATUS_ERROR_MASK + 1)

\* The messages _validate_status hands to error_handler, in order.
status_complaints(s, expect_done, expect_isc) ==
    (IF HasFlag(s, STATUS_FLAG_FAIL) THEN <<"Failed to execute last command!">> ELSE <<>>) \o
    (IF HasFlag(s, STATUS_FLAG_ID_ERROR) THEN <<"Failed to verify device IDCODE!">> ELSE <<>>) \o
    (IF HasFlag(s, STATUS_FLAG_INVALID_COMMAND) THEN <<"Last command was invalid!">> ELSE <<>>) \o
    (IF expect_done /\ ~HasFlag(s, STATUS_FLAG_DONE) THEN <<"Configuration failed">> ELSE <<>>) \o
    (IF expect_isc /\ ~HasFlag(s, STATUS_FLAG_ISC_ENABLE) THEN <<"Failed to enter ISC">> ELSE <<>>)

\* validate_status without the expect_isc check.
validate_status_NoIscCheck(s, expect_done, continue_anyway, expect_isc, at) ==
    LET said == status_complaints(s, expect_done, FALSE)
    IN  IF continue_anyway \/ said = <<>>
        THEN NoError
        ELSE IOError(Head(said), STATUS_ERROR_CODES[error_code(s)], at)

\* validate_status without the expect_done check.
validate_status_NoDoneCheck(s, expect_done, continue_anyway, expect_isc, at) ==
    LET said == status_complaints(s, FALSE, expect_isc)
    IN  IF continue_anyway \/ said = <<>>
        THEN NoError
        ELSE IOError(Head(said), STATUS_ERROR_CODES[error_code(s)], at)

\* validate_status with continue_anyway ignored: every complaint raises.
validate_status_NoContinue(s, expect_done, continue_anyway, expect_isc, at) ==
    LET said == status_complaints(s, expect_done, expect_isc)
    IN  IF said = <<>>
        THEN NoError
        ELSE IOError(Head(said), STATUS_ERROR_CODES[error_code(s)], at)

\* validate_status whose done and isc expectations raise directly, whatever
\* continue_anyway says.
validate_status_ExpectationsRaise(s, expect_done, continue_anyway, expect_isc, at) ==
    LET flagged  == status_complaints(s, FALSE, FALSE)
        expected == SubSeq(status_complaints(s, expect_done, expect_isc),
                           Len(flagged) + 1,
                           Len(status_complaints(s, expect_done, expect_isc)))
        said     == IF continue_anyway THEN expected ELSE flagged \o expected
    IN  IF said = <<>>
        THEN NoError
        ELSE IOError(Head(said), STATUS_ERROR_CODES[error_code(s)], at)

\* validate_status with the commented-out check of the error code in force: a
\* non-zero error code is a complaint too.
validate_status_ErrorCodeRaises(s, expect_done, continue_anyway, expect_isc, at) ==
    LET said == status_complaints(s, expect_done, expect_isc) \o
                (IF error_code(s) # 0 THEN <<"Error code reported.">> ELSE <<>>)
    IN  IF continue_anyway \/ said = <<>>
        THEN NoError
        ELSE IOError(Head(said), STATUS_ERROR_CODES[error_code(s)], at)

\* error_handler is raise_error unless continue_anyway, and then it only prints:
\* the first complaint raises. Every message carries the error code's text.
validate_status(s, expect_done, continue_anyway, expect_isc, at) ==
    LET said == status_complaints(s, expect_done, expect_isc)
    IN  IF continue_anyway \/ said = <<>>
        THEN NoError
        ELSE IOError(Head(said), STATUS_ERROR_CODES[error_code(s)], at)

-----------------------------------------------------------------------------
(* _generate_bit_reversed_bitstream                                        *)

\* "{:08b}".format(num): the eight binary digits, most significant first.
binstr(num) == [i \in 1..8 |-> (num \div (2 ^ (8 - i))) % 2]

\* seq[::-1]
Reversed(seq) == [i \in 1..Len(seq) |-> seq[Len(seq) + 1 - i]]

\* int(digits, 2): the sum of the powers of two of the places that hold a 1.
int_base2(digits) ==
    SetSum({2 ^ (Len(digits) - i) : i \in {j \in 1..Len(digits) : digits[j] = 1}})

\* A helper that shifts the bits up by one instead of reversing them.
reverse_bits_Shift(num) == (2 * num) % 256

\* reverse_bits(num): int(binstr[::-1], 2)
reverse_bits(num) == int_base2(Reversed(binstr(num)))

\* The transform without the reversal of the byte order.
generate_bit_reversed_bitstream_NoByteReverse(bytes, byte_reverse) ==
    [i \in 1..Len(bytes) |-> reverse_bits(bytes[i])]

generate_bit_reversed_bitstream(bytes, byte_reverse) ==
    LET bit_reversed == [i \in 1..Len(bytes) |-> reverse_bits(bytes[i])]
    IN  IF byte_reverse THEN Reversed(bit_reversed) ELSE bit_reversed

\* The bitstream a caller hands to configure(), n bytes long.
Bitstream(n) == [i \in 1..n |-> (37 * i + 11) % 256]

-----------------------------------------------------------------------------
(* ECP5_JTAGRegisters: widths and words.                                   *)

OPCODE_INSTRUCTION == 50
OPCODE_DATA        == 56

\* self._instruction_width = None, self._data_width = None
None == -1

\* chain.shift_data(length=128, ...) in _autodetect_width_for.
PROBE_LENGTH == 128

\* Usable register widths are up to this many bytes.
MaxWidthBytes == 2

\* The bits a register shifts out during a probe, first out first: ones
\* leading ones, then a zero and the tail bit repeated; no zero at all when
\* ones is the probe length.
ProbeOutput(ones, tail) ==
    [i \in 1..PROBE_LENGTH |-> IF i <= ones THEN 1 ELSE IF i = ones + 1 THEN 0 ELSE tail]

\* The vector shift_data returns for bits that left the register in the order
\* out: its reversed() lists them first out first.
shift_data_capture(out) == Reversed(out)

\* The number of leading ones of the registers probed.
ProbeWidths == {0, 1, 12, 127, PROBE_LENGTH} \cup {8 * k : k \in 1..MaxWidthBytes}

\* A detection that takes the last index seen instead of the first zero.
autodetect_width_for_Last(response) == Len(response) - 1

\* for index, value in enumerate(response): if not value: return index;
\* return 0 when there is no zero.
autodetect_width_for(response) ==
    IF \E i \in 1..Len(response) : response[i] = 0
    THEN (CHOOSE i \in 1..Len(response) :
              response[i] = 0 /\ \A j \in 1..(i - 1) : response[j] # 0) - 1
    ELSE 0

invalid_shape(iw, dw) == iw = 0 \/ dw = 0 \/ iw % 8 # 0 \/ dw % 8 # 0

\* Bit k (bit 0 least significant) of a non-negative integer below 2^30.
IntBit(v, k) == IF k > 30 THEN 0 ELSE (v \div (2 ^ k)) % 2

\* bits(value=v, length=n, byteorder='big') for a value that fits: n bits,
\* most significant first.
bits(v, n) == [i \in 1..n |-> IntBit(v, n - i)]

\* A command word whose write flag is never set.
command_word_NoFlag(addr, is_write, width) == bits(addr, width)

\* A command word whose write flag is always set.
command_word_AlwaysWrite(addr, is_write, width) ==
    [i \in 1..width |-> IF i = 1 THEN 1 ELSE IntBit(addr, width - i)]

\* write_flag_position = width - 1; write_flag = (1 << write_flag_position) if
\* is_write else 0; command = bits(value=write_flag | address, length=width).
\* The integers are taken bit by bit, bit 0 least significant.
command_word(addr, is_write, width) ==
    LET write_flag_position == width - 1
        write_flag(k) == IF is_write /\ k = write_flag_position THEN 1 ELSE 0
        value(k) == IF write_flag(k) = 1 \/ IntBit(addr, k) = 1 THEN 1 ELSE 0
    IN  [i \in 1..width |-> value(width - i)]

\* Addresses and values callers pass to a bridge whose registers have these widths.
AddressesFor(w) ==
    {0} \cup (IF w >= 2 /\ w <= 8 * (MaxWidthBytes + 1) THEN {2 ^ (w - 1) - 1} ELSE {})
ValuesFor(w) ==
    IF w = 0 \/ w >= PROBE_LENGTH THEN {0}
    ELSE IF w <= 8 * (MaxWidthBytes + 1) THEN {v \in {0, 165, 2 ^ w - 1} : v < 2 ^ w}
    ELSE {0, 165}

NoTransaction ==
    [address |-> 0, is_write |-> FALSE, value |-> 0, detected |-> FALSE,
     command |-> <<>>, word |-> <<>>, result |-> 0, done |-> FALSE,
     previous |-> [address |-> 0, is_write |-> FALSE, value |-> 0, ok |-> FALSE]]

\* No hardware behind the bridge (the bridge is not in use).
NoRegisters == [contents |-> <<>>, latched |-> [write |-> FALSE, address |-> 0]]

IdleRegisters ==
    /\ instruction_width = None
    /\ data_width = None
    /\ transaction = NoTransaction

\* No command of the command-line tool is running: the programmer is used
\* directly.
NoCommand ==
    [name |-> "none",
     unconfigure |-> [called |-> FALSE, error |-> NoError, issued |-> <<>>]]

IdleBurst ==
    /\ reversed_bitstream = <<>>
    /\ burst = <<>>

-----------------------------------------------------------------------------
(* The statements of configure() and of trigger_reconfiguration() that go  *)
(* through _execute_command, and what follows each.                        *)

PART_ID_LENGTH == 4
STATUS_REGISTER_LENGTH == 4

\* The pre-configuration write of configure(): bits(b"\x3f" + b"\xff" * 63, 510).
UNLOCK_BITS == 510

Step(p) ==
    CASE p = "cfg_restart" ->
            [opcode |-> "LSC_REFRESH", bits |-> 0, wait |-> TRUE, check |-> FALSE,
             sleep |-> 50, idle |-> 0]
      [] p = "cfg_unlock" ->
            [opcode |-> "0x1C", bits |-> UNLOCK_BITS, wait |-> FALSE, check |-> FALSE,
             sleep |-> 0, idle |-> 0]
      [] p = "cfg_isc_enable" ->
            [opcode |-> "ISC_ENABLE", bits |-> 8, wait |-> FALSE, check |-> FALSE,
             sleep |-> 0, idle |-> 2]
      [] p = "cfg_erase" ->
            [opcode |-> "ISC_ERASE", bits |-> 8, wait |-> TRUE, check |-> TRUE,
             sleep |-> 0, idle |-> 2]
      [] p = "cfg_swa" ->
            [opcode |-> "LSC_SET_WORKING_ADDRESS", bits |-> 8, wait |-> FALSE, check |-> TRUE,
             sleep |-> 0, idle |-> 0]
      [] p = "cfg_burst" ->
            [opcode |-> "LSC_BITSTREAM_BURST", bits |-> 8 * bitstream, wait |-> FALSE,
             check |-> FALSE, sleep |-> 0, idle |-> 0]
      [] p = "cfg_idle" ->
            \* _allow_configuration_time: shift_instruction(0xFF), run_test(100)
            [opcode |-> "NO_OP", bits |-> 0, wait |-> FALSE, check |-> FALSE,
             sleep |-> 0, idle |-> 100]
      [] p = "cfg_disable" ->
            [opcode |-> "ISC_DISABLE", bits |-> 0, wait |-> FALSE, check |-> FALSE,
             sleep |-> 0, idle |-> 2]
      [] p = "fl_reconf" ->
            \* ECP5_JTAGProgrammer.trigger_reconfiguration
            [opcode |-> "LSC_REFRESH", bits |-> 0, wait |-> TRUE, check |-> FALSE,
             sleep |-> 50, idle |-> 2]
      \* ECP5_JTAGProgrammer.unconfigure
      [] p = "un_restart" ->
            [opcode |-> "LSC_REFRESH", bits |-> 0, wait |-> TRUE, check |-> FALSE,
             sleep |-> 50, idle |-> 0]
      [] p = "un_isc_enable" ->
            [opcode |-> "ISC_ENABLE", bits |-> 8, wait |-> FALSE, check |-> FALSE,
             sleep |-> 0, idle |-> 2]
      [] p = "un_erase" ->
            [opcode |-> "ISC_ERASE", bits |-> 8, wait |-> TRUE, check |-> TRUE,
             sleep |-> 0, idle |-> 2]
      [] p = "un_disable" ->
            [opcode |-> "ISC_DISABLE", bits |-> 0, wait |-> FALSE, check |-> TRUE,
             sleep |-> 0, idle |-> 2]

CommandSteps == {"cfg_restart", "cfg_unlock", "cfg_isc_enable", "cfg_erase", "cfg_swa",
                 "cfg_burst", "cfg_idle", "cfg_disable", "fl_reconf",
                 "un_restart", "un_isc_enable", "un_erase", "un_disable"}

\* The steps that restart configuration (_restart_configuration_process).
RestartSteps == {"cfg_restart", "fl_reconf", "un_restart"}

\* The explicit status checks of configure(): _read_status, then _validate_status.
StatusCheck(p) ==
    CASE p = "cfg_status_isc" ->
            [expect_done |-> FALSE, continue_anyway |-> FALSE, expect_isc |-> TRUE]
      [] p = "cfg_status_erase" ->
            [expect_done |-> FALSE, continue_anyway |-> TRUE, expect_isc |-> FALSE]
      [] p = "cfg_status_done" ->
            [expect_done |-> TRUE, continue_anyway |-> FALSE, expect_isc |-> FALSE]
      [] p = "cfg_status_final" ->
            [expect_done |-> TRUE, continue_anyway |-> FALSE, expect_isc |-> FALSE]

StatusSteps == {"cfg_status_isc", "cfg_status_erase", "cfg_status_done", "cfg_status_final"}

\* configure() without its ISC_DISABLE statement.
ConfigureStatements_NoDisable ==
    <<"cfg_led", "cfg_restart", "cfg_capture_id", "cfg_unlock", "cfg_isc_enable",
      "cfg_status_isc", "cfg_erase", "cfg_status_erase", "cfg_swa", "cfg_burst", "cfg_idle",
      "cfg_status_done", "cfg_status_final", "cfg_finally">>

\* configure() with the burst before LSC_SET_WORKING_ADDRESS.
ConfigureStatements_BurstFirst ==
    <<"cfg_led", "cfg_restart", "cfg_capture_id", "cfg_unlock", "cfg_isc_enable",
      "cfg_status_isc", "cfg_erase", "cfg_status_erase", "cfg_burst", "cfg_swa", "cfg_idle",
      "cfg_status_done", "cfg_disable", "cfg_status_final", "cfg_finally">>

\* The statements of configure(), in the order of the source.
ConfigureStatements ==
    <<"cfg_led", "cfg_restart", "cfg_capture_id", "cfg_unlock", "cfg_isc_enable",
      "cfg_status_isc", "cfg_erase", "cfg_status_erase", "cfg_swa", "cfg_burst", "cfg_idle",
      "cfg_status_done", "cfg_disable", "cfg_status_final", "cfg_finally">>

\* unconfigure() without its ISC_ERASE statement.
UnconfigureStatements_NoErase ==
    <<"un_restart", "un_preconfig", "un_isc_enable", "un_disable", "exit">>

\* The statements of unconfigure(), in the order of the source.
UnconfigureStatements ==
    <<"un_restart", "un_preconfig", "un_isc_enable", "un_erase", "un_disable", "exit">>

\* The statement that follows p in a method's statements.
After(statements, p) ==
    statements[(CHOOSE k \in 1..Len(statements) : statements[k] = p) + 1]

\* NextStatement with flash() going back to its loop after the trigger.
NextStatement_ReconfLoops(p) ==
    IF p = "fl_reconf" THEN "fl_loop"
    ELSE IF \E k \in 1..Len(UnconfigureStatements) : UnconfigureStatements[k] = p
    THEN After(UnconfigureStatements, p)
    ELSE After(ConfigureStatements, p)

\* The statement executed after statement p; trigger_reconfiguration() is the
\* last statement of flash().
NextStatement(p) ==
    IF p = "fl_reconf" THEN "exit"
    ELSE IF \E k \in 1..Len(UnconfigureStatements) : UnconfigureStatements[k] = p
    THEN After(UnconfigureStatements, p)
    ELSE After(ConfigureStatements, p)

\* Where a statement starts.
FirstSub(p) ==
    IF p \in RestartSteps THEN "strobe"
    ELSE IF p \in CommandSteps \cup {"cfg_capture_id"} THEN "shift"
    ELSE IF p \in {"fl_protect", "fl_erase", "fl_page", "ef_erase"} THEN "ew_wait"
    ELSE "none"

\* RaiseTarget without the finally block: every exception leaves at once.
RaiseTarget_NoFinally(o, p) == "exit"

\* An exception handler that runs the failed statement again.
RaiseTarget_Retry(o, p) == p

\* Where an exception raised at statement p of method o continues: the body of
\* configure() after the first set_led_pattern is inside try ... finally, and
\* the bodies of transfer() and register_transaction() are inside
\* "with self._chain as jtag", whose exit runs.
RaiseTarget(o, p) ==
    IF o = "configure" /\ p # "cfg_led" THEN "cfg_finally"
    ELSE IF o = "transfer" /\ p \notin {"tr_enter", "tr_release"} THEN "tr_release"
    ELSE IF o = "register_transaction" /\ p \notin {"rt_enter", "rt_release"}
    THEN "rt_release"
    ELSE "exit"

Raise(e) ==
    /\ error' = e
    /\ pc' = RaiseTarget(op, pc)
    /\ sub' = "none"

\* The locals of the helpers are gone once the exception leaves them.
Unwind ==
    /\ busy' = 0
    /\ elapsed' = 0

Goto(p) ==
    /\ pc' = p
    /\ sub' = FirstSub(p)
    /\ error' = error

\* After the shift of a command, and after its wait.
AfterShift(c) == IF c.wait THEN "wait" ELSE IF c.check THEN "check" ELSE "tail"
AfterWait(c)  == IF c.check THEN "check" ELSE "tail"

Unread == [isc |-> "unread", erase_flags |-> "unread",
           done_burst |-> "unread", done_final |-> "unread"]

IdleFlash ==
    /\ erase_first = FALSE
    /\ disable_protections = FALSE
    /\ address = 0
    /\ data_remaining = 0
    /\ chunk = 0
    /\ flash_status = 0

IdleRead ==
    /\ length = 0
    /\ bytes_remaining = 0
    /\ data = <<>>
    /\ responses = <<>>

IdleValidate ==
    /\ vin = [status |-> 0, expect_done |-> FALSE, continue_anyway |-> FALSE, expect_isc |-> FALSE]
    /\ vout = [called |-> FALSE, error |-> NoError]

Idle ==
    /\ op = "none"
    /\ pc = "idle"
    /\ sub = "none"
    /\ log = <<>>
    /\ leds = <<>>
    /\ status = 0
    /\ busy = 0
    /\ elapsed = 0
    /\ error = NoError
    /\ part_id = <<0, 0, 0, 0>>
    /\ obs = Unread
    /\ bitstream = 0
    /\ IdleFlash
    /\ IdleRead
    /\ bitbang = FALSE
    /\ IdleRegisters
    /\ IdleBurst
    /\ cli_command = NoCommand

Init ==
    /\ programPin \in BOOLEAN
    /\ Idle
    /\ IdleValidate
    /\ registers = NoRegisters

-----------------------------------------------------------------------------
(* configure()                                                             *)

ClearCall ==
    /\ log' = <<>>
    /\ leds' = <<>>
    /\ status' = 0
    /\ busy' = 0
    /\ elapsed' = 0
    /\ error' = NoError
    /\ part_id' = <<0, 0, 0, 0>>
    /\ obs' = Unread

\* A caller invokes configure(bitstream); its first statement replaces the
\* bitstream by _generate_bit_reversed_bitstream(bitstream, byte_reverse=True).
CallConfigure ==
    /\ op = "none"
    /\ \E n \in ConfigureLengths :
        /\ bitstream' = n
        /\ reversed_bitstream' = generate_bit_reversed_bitstream(Bitstream(n), TRUE)
    /\ burst' = <<>>
    /\ op' = "configure"
    /\ pc' = "cfg_led"
    /\ sub' = "none"
    /\ ClearCall
    /\ UNCHANGED <<programPin, cli_command, flashVars, validateVars, readVars, bitbang,
                   registerVars>>

\* self.chain.debugger.set_led_pattern(LED_PATTERN_UPLOAD), before the try.
SetLedUpload ==
    /\ pc = "cfg_led"
    /\ leds' = Append(leds, LED_PATTERN_UPLOAD)
    /\ Goto(NextStatement(pc))
    /\ UNCHANGED <<programPin, cli_command, op, log, status, busy, elapsed, part_id, obs, bitstream,
                   flashVars, validateVars, readVars, bitbang,
                   registerVars, burstVars>>

\* ECP5Programmer._restart_configuration_process: without a PROGRAM pin it returns
\* False; with one it strobes the pin, sleeps 50 ms and returns None. Either
\* way the caller sees a false value and goes on to LSC_REFRESH.
RestartStrobe ==
    /\ pc \in RestartSteps
    /\ sub = "strobe"
    /\ log' = IF programPin
              THEN log \o <<Cmd("PROGRAM_LOW", 0), Cmd("PROGRAM_HIGH", 0), Cmd("SLEEP", 50)>>
              ELSE log
    /\ sub' = "shift"
    /\ UNCHANGED <<programPin, cli_command, op, pc, leds, status, busy, elapsed, error, part_id, obs,
                   bitstream, flashVars, validateVars, readVars, bitbang,
                   registerVars, burstVars>>

\* _execute_command: shift_instruction(opcode), then shift_data when there is
\* data or a length.
ExecShift ==
    /\ pc \in CommandSteps
    /\ sub = "shift"
    /\ LET c == Step(pc) IN
        /\ log' = Append(log, Cmd(c.opcode, c.bits))
        /\ burst' = IF c.opcode = "LSC_BITSTREAM_BURST"
                    THEN Append(burst, reversed_bitstream) ELSE burst
        /\ sub' = AfterShift(c)
    /\ elapsed' = 0
    /\ status' = 0
    /\ UNCHANGED <<programPin, cli_command, op, pc, leds, busy, error, part_id, obs, bitstream,
                   flashVars, validateVars, readVars, bitbang,
                   registerVars, reversed_bitstream>>

\* A deadline that never passes.
timed_out_Never(ms) == FALSE

\* time.monotonic() > timeout, with the deadline taken at entry.
timed_out(ms) == ms > WAIT_TIMEOUT_MS

\* The busy checks of one wait are logged once.
LogPoll(l) ==
    IF l # <<>> /\ l[Len(l)].cmd = "LSC_CHECK_BUSY" THEN l ELSE Append(l, Cmd("LSC_CHECK_BUSY", 8))

\* _wait_for_completion, one iteration: _device_is_busy(); when busy, sleep and
\* raise if the deadline has passed.
WaitForCompletion ==
    /\ pc \in CommandSteps
    /\ sub = "wait"
    /\ log' = LogPoll(log)
    /\ \E b \in {0, 1} :
        /\ busy' = b
        /\ IF b = 0
           THEN /\ sub' = AfterWait(Step(pc))
                /\ elapsed' = 0
                /\ UNCHANGED <<pc, error>>
           ELSE \E k \in 1..MaxSleepStretch :
                /\ elapsed' = elapsed + k * WAIT_SLEEP_MS
                /\ IF timed_out(elapsed')
                   THEN Raise(IOError("ECP5 request timed out waiting for completion",
                                      Step(pc).opcode, pc))
                   ELSE UNCHANGED <<pc, sub, error>>
    /\ UNCHANGED <<programPin, cli_command, op, leds, status, part_id, obs, bitstream,
                   flashVars, validateVars, readVars, bitbang,
                   registerVars, burstVars>>

\* _execute_command with check_status: _read_status, _validate_status(status).
ExecCheckStatus ==
    /\ pc \in CommandSteps
    /\ sub = "check"
    /\ log' = Append(log, Cmd("LSC_READ_STATUS", 8 * STATUS_REGISTER_LENGTH))
    /\ \E s \in StatusValues :
        /\ status' = s
        /\ LET e == validate_status(s, FALSE, FALSE, FALSE, pc) IN
            IF e.kind # "none" THEN Raise(e)
            ELSE /\ sub' = "tail"
                 /\ UNCHANGED <<pc, error>>
    /\ UNCHANGED <<programPin, cli_command, op, leds, busy, elapsed, part_id, obs, bitstream,
                   flashVars, validateVars, readVars, bitbang,
                   registerVars, burstVars>>

\* What follows the command in its statement: the settle delay of a restart,
\* run_test(cycles).
StepTail ==
    /\ pc \in CommandSteps
    /\ sub = "tail"
    /\ LET c == Step(pc) IN
        /\ log' = log \o (IF c.sleep > 0 THEN <<Cmd("SLEEP", c.sleep)>> ELSE <<>>)
                      \o (IF c.idle > 0 THEN <<Cmd("RUN_TEST", c.idle)>> ELSE <<>>)
        /\ Goto(NextStatement(pc))
    /\ UNCHANGED <<programPin, cli_command, op, leds, status, busy, elapsed, part_id, obs, bitstream,
                   flashVars, validateVars, readVars, bitbang,
                   registerVars, burstVars>>

\* _capture_part_id: read_id, and an IOError for a known-invalid ID.
\* A check that knows the all-ones ID only.
no_device_AllOnesOnly(id) == id = <<255, 255, 255, 255>>

no_device(id) == id \in {<<0, 0, 0, 0>>, <<255, 255, 255, 255>>}

CapturePartId ==
    /\ pc = "cfg_capture_id"
    /\ log' = Append(log, Cmd("READ_ID", 8 * PART_ID_LENGTH))
    /\ \E id \in PartIdBytes :
        /\ part_id' = id
        /\ IF no_device(id)
           THEN Raise(IOError("Could not detect a connected FPGA", "", pc))
           ELSE Goto(NextStatement(pc))
    /\ UNCHANGED <<programPin, cli_command, op, leds, status, busy, elapsed, obs, bitstream,
                   flashVars, validateVars, readVars, bitbang,
                   registerVars, burstVars>>

\* What a status read of configure() saw of the flag its step is about.
Seen(b) == IF b THEN "set" ELSE "clear"
has_error_flags(s) ==
    \/ HasFlag(s, STATUS_FLAG_FAIL)
    \/ HasFlag(s, STATUS_FLAG_ID_ERROR)
    \/ HasFlag(s, STATUS_FLAG_INVALID_COMMAND)
Observe(o, p, s) ==
    CASE p = "cfg_status_isc"   -> [o EXCEPT !.isc = Seen(HasFlag(s, STATUS_FLAG_ISC_ENABLE))]
      [] p = "cfg_status_erase" -> [o EXCEPT !.erase_flags = Seen(has_error_flags(s))]
      [] p = "cfg_status_done"  -> [o EXCEPT !.done_burst = Seen(HasFlag(s, STATUS_FLAG_DONE))]
      [] p = "cfg_status_final" -> [o EXCEPT !.done_final = Seen(HasFlag(s, STATUS_FLAG_DONE))]

\* A status check that validates the status it still holds instead of reading
\* it again.
ReadAndValidateStatus_Cached ==
    /\ pc \in StatusSteps
    /\ LET k == StatusCheck(pc)
           e == validate_status(status, k.expect_done, k.continue_anyway, k.expect_isc, pc)
       IN  IF e.kind # "none" THEN Raise(e) ELSE Goto(NextStatement(pc))
    /\ UNCHANGED <<programPin, cli_command, op, log, leds, status, busy, elapsed, part_id, obs,
                   bitstream, flashVars, validateVars, readVars, bitbang,
                   registerVars, burstVars>>

\* status = self._read_status(); self._validate_status(status, ...)
ReadAndValidateStatus ==
    /\ pc \in StatusSteps
    /\ log' = Append(log, Cmd("LSC_READ_STATUS", 8 * STATUS_REGISTER_LENGTH))
    /\ \E s \in StatusValues :
        /\ status' = s
        /\ obs' = Observe(obs, pc, s)
        /\ LET k == StatusCheck(pc)
               e == validate_status(s, k.expect_done, k.continue_anyway, k.expect_isc, pc)
           IN  IF e.kind # "none" THEN Raise(e) ELSE Goto(NextStatement(pc))
    /\ UNCHANGED <<programPin, cli_command, op, leds, busy, elapsed, part_id, bitstream,
                   flashVars, validateVars, readVars, bitbang,
                   registerVars, burstVars>>

\* finally: set_led_pattern(LED_PATTERN_IDLE); then the call returns, or the
\* exception goes on to the caller.
Finally ==
    /\ pc = "cfg_finally"
    /\ leds' = Append(leds, LED_PATTERN_IDLE)
    /\ pc' = "exit"
    /\ sub' = "none"
    /\ UNCHANGED <<programPin, cli_command, op, log, status, busy, elapsed, error, part_id, obs,
                   bitstream, flashVars, validateVars, readVars, bitbang,
                   registerVars, burstVars>>

-----------------------------------------------------------------------------
(* unconfigure()                                                           *)

CallUnconfigure ==
    /\ op = "none"
    /\ op' = "unconfigure"
    /\ pc' = "un_restart"
    /\ sub' = FirstSub("un_restart")
    /\ ClearCall
    /\ UNCHANGED <<programPin, cli_command, bitstream, flashVars, validateVars, readVars, bitbang,
                   registerVars, burstVars>>

\* _perform_preconfiguration_tasks: the hook does nothing in this class.
PerformPreconfigurationTasks ==
    /\ pc = "un_preconfig"
    /\ Goto(NextStatement(pc))
    /\ UNCHANGED <<programPin, cli_command, op, log, leds, status, busy, elapsed, part_id, obs, bitstream,
                   flashVars, validateVars, readVars, bitbang,
                   registerVars, burstVars>>

-----------------------------------------------------------------------------
(* erase_flash() and flash(), over the background SPI bridge.              *)

\* A slice that always takes a whole page.
Min_First(a, b) == a

Min(a, b) == IF a < b THEN a ELSE b

\* x & mask, for a one-bit mask.
BitAnd(x, mask) == ((x \div mask) % 2) * mask

\* FlashStep with no busy polling after the CHIP_ERASE of erase_flash().
FlashStep_NoEraseWait(p) ==
    CASE p = "fl_protect" ->
            [opcode |-> "WRITE_STATUS1", bits |-> 16, wait |-> FALSE, next |-> "fl_erase?"]
      [] p = "fl_erase" ->
            [opcode |-> "CHIP_ERASE", bits |-> 8, wait |-> TRUE, next |-> "fl_loop"]
      [] p = "fl_page" ->
            [opcode |-> "WRITE_PAGE", bits |-> 32, wait |-> TRUE, next |-> "fl_loop"]
      [] p = "ef_erase" ->
            [opcode |-> "CHIP_ERASE", bits |-> 8, wait |-> FALSE, next |-> "exit"]

\* FlashStep with no busy polling after WRITE_PAGE.
FlashStep_NoPageWait(p) ==
    CASE p = "fl_protect" ->
            [opcode |-> "WRITE_STATUS1", bits |-> 16, wait |-> FALSE, next |-> "fl_erase?"]
      [] p = "fl_erase" ->
            [opcode |-> "CHIP_ERASE", bits |-> 8, wait |-> TRUE, next |-> "fl_loop"]
      [] p = "fl_page" ->
            [opcode |-> "WRITE_PAGE", bits |-> 32, wait |-> FALSE, next |-> "fl_loop"]
      [] p = "ef_erase" ->
            [opcode |-> "CHIP_ERASE", bits |-> 8, wait |-> TRUE, next |-> "exit"]

\* The statements that transmit a flash-modifying command: each enables
\* writing first; bits counts the opcode and operand bits sent ahead of any
\* page data; wait says whether _flash_wait_for_completion follows.
FlashStep(p) ==
    CASE p = "fl_protect" ->
            [opcode |-> "WRITE_STATUS1", bits |-> 16, wait |-> FALSE, next |-> "fl_erase?"]
      [] p = "fl_erase" ->
            [opcode |-> "CHIP_ERASE", bits |-> 8, wait |-> TRUE, next |-> "fl_loop"]
      [] p = "fl_page" ->
            [opcode |-> "WRITE_PAGE", bits |-> 32, wait |-> TRUE, next |-> "fl_loop"]
      [] p = "ef_erase" ->
            [opcode |-> "CHIP_ERASE", bits |-> 8, wait |-> TRUE, next |-> "exit"]

FlashSteps == {"fl_protect", "fl_erase", "fl_page", "ef_erase"}

ModifyingCommands == {"WRITE_PAGE", "CHIP_ERASE", "WRITE_STATUS1"}

CallEraseFlash ==
    /\ op = "none"
    /\ op' = "erase_flash"
    /\ pc' = "ef_enter"
    /\ sub' = "none"
    /\ ClearCall
    /\ UNCHANGED <<programPin, cli_command, bitstream, flashVars, validateVars, readVars, bitbang,
                   registerVars, burstVars>>

CallFlash ==
    /\ op = "none"
    /\ \E n \in BitstreamLengths : bitstream' = n
    /\ erase_first' \in BOOLEAN
    /\ disable_protections' \in BOOLEAN
    /\ op' = "flash"
    /\ pc' = "fl_enter"
    /\ sub' = "none"
    /\ ClearCall
    /\ UNCHANGED <<programPin, cli_command, address, data_remaining, chunk, flash_status, validateVars, readVars, bitbang,
                   registerVars, burstVars>>

\* def flash(self, bitstream, erase_first=True, disable_protections=False)
flash_parameters == {"bitstream", "erase_first", "disable_protections"}

\* A call binds when every keyword it passes names a parameter; otherwise
\* Python raises TypeError before the body runs.
accepts(parameters, keywords) == keywords \subseteq parameters

TypeError(keyword, at) ==
    [kind |-> "TypeError", msg |-> "got an unexpected keyword argument",
     detail |-> keyword, at |-> at]

\* The flash commands of the command-line tool that go through JTAG.
CliCommands == {"flash-erase", "flash-program", "flash-read", "flash-info"}

\* The first statement of each of them: ensure_unconfigured(device), which
\* creates a programmer (without a PROGRAM pin) and calls unconfigure().
EnsureUnconfigured ==
    /\ op = "none"
    /\ cli_command = NoCommand
    /\ ~programPin
    /\ \E c \in CliCommands : cli_command' = [NoCommand EXCEPT !.name = c]
    /\ op' = "unconfigure"
    /\ pc' = "un_restart"
    /\ sub' = FirstSub("un_restart")
    /\ ClearCall
    /\ UNCHANGED <<programPin, bitstream, flashVars, validateVars, readVars, bitbang,
                   registerVars, burstVars>>

\* ensure_unconfigured(device) has returned to a command: unconfigure() has
\* exited without an exception (one would have left the command).
Unconfigured(c) ==
    /\ cli_command.name = c
    /\ op = "unconfigure"
    /\ pc = "exit"
    /\ error = NoError
    /\ cli_command' = [cli_command EXCEPT
                      !.unconfigure = [called |-> TRUE, error |-> error, issued |-> log]]

\* A command that goes on to the flash whatever unconfigure() did.
EraseFlashCommand_IgnoresFailure ==
    /\ cli_command.name = "flash-erase"
    /\ op = "unconfigure"
    /\ pc = "exit"
    /\ cli_command' = [cli_command EXCEPT
                      !.unconfigure = [called |-> TRUE, error |-> error, issued |-> log]]
    /\ op' = "erase_flash"
    /\ pc' = "ef_enter"
    /\ sub' = "none"
    /\ ClearCall
    /\ UNCHANGED <<programPin, bitstream, flashVars, validateVars, readVars, bitbang,
                   registerVars, burstVars>>

\* cli.erase_flash: ensure_unconfigured(device), then programmer.erase_flash().
EraseFlashCommand ==
    /\ Unconfigured("flash-erase")
    /\ op' = "erase_flash"
    /\ pc' = "ef_enter"
    /\ sub' = "none"
    /\ ClearCall
    /\ UNCHANGED <<programPin, bitstream, flashVars, validateVars, readVars, bitbang,
                   registerVars, burstVars>>

\* cli.program_flash without --fast: ensure_unconfigured(device) has returned;
\* the command reads its --offset and the bitstream file.
ProgramFlash ==
    /\ Unconfigured("flash-program")
    /\ op' = "program_flash"
    /\ pc' = "pf_flash"
    /\ sub' = "none"
    /\ \E n \in BitstreamLengths : bitstream' = n
    /\ ClearCall
    /\ UNCHANGED <<programPin, flashVars, validateVars, readVars, bitbang,
                   registerVars, burstVars>>

\* programmer.flash(bitstream, offset=offset)
ProgramFlashCallsFlash ==
    /\ op = "program_flash"
    /\ pc = "pf_flash"
    /\ IF accepts(flash_parameters, {"offset"})
       THEN /\ op' = "flash"
            /\ pc' = "fl_enter"
            /\ sub' = "none"
            /\ erase_first' = TRUE
            /\ disable_protections' = FALSE
            /\ UNCHANGED error
       ELSE /\ Raise(TypeError("offset", pc))
            /\ UNCHANGED <<op, erase_first, disable_protections>>
    /\ UNCHANGED <<programPin, cli_command, log, leds, status, busy, elapsed, part_id, obs, bitstream,
                   address, data_remaining, chunk, flash_status, validateVars, readVars,
                   bitbang, registerVars, burstVars>>

\* def read_flash(self, length)
read_flash_parameters == {"length"}

\* cli.read_back_flash: ensure_unconfigured(device) has returned; the command
\* works out its length and offset and opens the output file.
ReadBackFlash ==
    /\ Unconfigured("flash-read")
    /\ op' = "read_back_flash"
    /\ pc' = "rb_read"
    /\ sub' = "none"
    /\ \E n \in ReadLengths : length' = n
    /\ ClearCall
    /\ UNCHANGED <<programPin, bitstream, flashVars, validateVars, bytes_remaining,
                   data, responses, bitbang, registerVars, burstVars>>

\* programmer.read_flash(length, offset=offset)
ReadBackFlashCallsReadFlash ==
    /\ op = "read_back_flash"
    /\ pc = "rb_read"
    /\ IF accepts(read_flash_parameters, {"offset"})
       THEN /\ op' = "read_flash"
            /\ pc' = "rf_enter"
            /\ sub' = "none"
            /\ UNCHANGED error
       ELSE /\ Raise(TypeError("offset", pc))
            /\ UNCHANGED op
    /\ UNCHANGED <<programPin, cli_command, log, leds, status, busy, elapsed, part_id, obs,
                   bitstream, flashVars, validateVars, readVars, bitbang, registerVars,
                   burstVars>>

\* cli.print_flash_info: ensure_unconfigured(device) has returned; the command
\* reads the serial number and calls programmer.read_flash_id().
PrintFlashInfo ==
    /\ Unconfigured("flash-info")
    /\ op' = "read_flash_id"
    /\ pc' = "ri_enter"
    /\ sub' = "none"
    /\ ClearCall
    /\ UNCHANGED <<programPin, bitstream, flashVars, validateVars, readVars, bitbang,
                   registerVars, burstVars>>

\* read_flash_id() after _enter_background_spi: the READ_JEDEC_ID transfer.
ReadJedecId ==
    /\ op = "read_flash_id"
    /\ pc = "ri_read_id"
    /\ log' = Append(log, Cmd("FLASH_READ_JEDEC_ID", 32))
    /\ pc' = "exit"
    /\ UNCHANGED <<programPin, cli_command, op, sub, leds, status, busy, elapsed, error,
                   part_id, obs, bitstream, flashVars, validateVars, readVars, bitbang,
                   registerVars, burstVars>>

\* print_flash_info goes on with programmer.read_flash_uid(), a method no
\* programmer class defines: AttributeError.
ReadFlashUid ==
    /\ cli_command.name = "flash-info"
    /\ op = "read_flash_id"
    /\ pc = "exit"
    /\ error = NoError
    /\ op' = "print_flash_info"
    /\ error' = [kind |-> "AttributeError", msg |-> "object has no attribute",
                 detail |-> "read_flash_uid", at |-> "print_flash_info"]
    /\ UNCHANGED <<programPin, cli_command, pc, sub, log, leds, status, busy, elapsed,
                   part_id, obs, bitstream, flashVars, validateVars, readVars, bitbang,
                   registerVars, burstVars>>

\* A command goes on after the call that has just returned.
CliContinues ==
    /\ cli_command.name # "none"
    /\ error = NoError
    /\ op \in {"unconfigure", "read_flash_id"}

\* SPI_UNLOCK_CODE = b"\x68\xFE"
SPI_UNLOCK_CODE == <<104, 254>>

\* A shift of the given bytes, eight bits each.
Sent(c, bytes) == [cmd |-> c, arg |-> 8 * Len(bytes), len |-> 0, tdi |-> bytes]

\* An entry with reset_flash false: the flash is not reset.
BackgroundSpiEntry_NoReset ==
    <<Cmd("LSC_ENTER_BACKGROUND_SPI", 8), Sent("SPI_UNLOCK_CODE", SPI_UNLOCK_CODE),
      Cmd("RUN_TEST", 1)>>

\* _enter_background_spi(reset_flash=True): the opcode, the unlock code, one
\* idle cycle, then eight 0xFF bytes, 0x66, 0x99 to the flash, and 100 ms.
BackgroundSpiEntry ==
    <<Cmd("LSC_ENTER_BACKGROUND_SPI", 8), Sent("SPI_UNLOCK_CODE", SPI_UNLOCK_CODE),
      Cmd("RUN_TEST", 1), Sent("FLASH_NOP", [i \in 1..8 |-> 255]),
      Sent("FLASH_RESET_ENABLE", <<102>>), Sent("FLASH_RESET", <<153>>),
      Cmd("SLEEP", 100)>>

EnterBackgroundSpi ==
    /\ pc \in {"fl_enter", "ef_enter", "rf_enter", "ri_enter"}
    /\ log' = log \o BackgroundSpiEntry
    /\ Goto(IF pc = "ef_enter" THEN "ef_erase"
            ELSE IF pc = "rf_enter" THEN "rf_read_id"
            ELSE IF pc = "ri_enter" THEN "ri_read_id" ELSE "fl_read_id")
    /\ UNCHANGED <<programPin, cli_command, op, leds, status, busy, elapsed, part_id, obs, bitstream,
                   flashVars, validateVars, readVars, bitbang,
                   registerVars, burstVars>>

\* A check that knows the all-zero answer only.
flash_absent_ZeroOnly(id) == id = 0

\* if flash_id in (0x00, 0xFF)
flash_absent(id) == id \in {0, 255}

\* The READ_ID transfer [READ_ID, 0, 0, 0, 0] with the last byte of its response.
ReadIdCmd(id) == [cmd |-> "FLASH_READ_ID", arg |-> 40, len |-> 0, last |-> id]

AfterFlashId == IF disable_protections THEN "fl_protect"
                ELSE IF erase_first THEN "fl_erase" ELSE "fl_loop"

\* flash(): the READ_ID transfer and the check of its last byte; then the
\* optional steps and the start of the programming loop.
FlashReadId ==
    /\ pc = "fl_read_id"
    /\ \E id \in FlashIdValues :
        /\ log' = Append(log, ReadIdCmd(id))
        /\ IF flash_absent(id)
           THEN /\ Raise(IOError("Flash does not seem correctly connected to the FPGA!", "", pc))
                /\ UNCHANGED <<address, data_remaining>>
           ELSE /\ Goto(AfterFlashId)
                /\ address' = 0
                /\ data_remaining' = bitstream
    /\ UNCHANGED <<programPin, cli_command, op, leds, status, busy, elapsed, part_id, obs, bitstream,
                   erase_first, disable_protections, chunk, flash_status, validateVars, readVars, bitbang,
                   registerVars, burstVars>>

\* Of the status reads of one wait, the log keeps the one that ended it.
LogFlashPoll(l, b) == IF b # 0 THEN l ELSE Append(l, Cmd("READ_STATUS1", b))

\* Where a flash statement goes on after a completed _flash_wait_for_completion.
AfterFlashWait(s) == IF s = "ew_wait" THEN "ew_enable" ELSE "done"

\* _flash_wait_for_completion, one iteration: read status register 1 and leave
\* the loop when the busy bit is clear. The loop has no other exit.
FlashWaitForCompletion ==
    /\ pc \in FlashSteps
    /\ sub \in {"ew_wait", "fw_wait"}
    /\ \E s \in FlashStatusValues :
        /\ flash_status' = s
        /\ log' = LogFlashPoll(log, BitAnd(s, SPI_FLASH_BUSY_MASK))
        /\ sub' = IF BitAnd(s, SPI_FLASH_BUSY_MASK) = 0 THEN AfterFlashWait(sub) ELSE sub
    /\ UNCHANGED <<programPin, cli_command, op, pc, leds, status, busy, elapsed, error, part_id, obs,
                   bitstream, erase_first, disable_protections, address, data_remaining,
                   chunk, validateVars, readVars, bitbang,
                   registerVars, burstVars>>

\* The test made with the busy mask instead of the write mask.
write_enabled_BusyMask(s) == BitAnd(s, SPI_FLASH_BUSY_MASK) # 0

\* The test of _enable_writing_to_flash on the status it read.
write_enabled(s) == BitAnd(s, SPI_FLASH_WRITE_MASK) # 0

\* _enable_writing_to_flash after its wait: ENABLE_WRITE, _get_flash_status,
\* and an IOError when the write-enable bit is clear.
EnableWriting ==
    /\ pc \in FlashSteps
    /\ sub = "ew_enable"
    /\ \E s \in FlashStatusValues :
        /\ flash_status' = s
        /\ log' = log \o <<Cmd("ENABLE_WRITE", 8),
                           Cmd("READ_STATUS1", BitAnd(s, SPI_FLASH_WRITE_MASK))>>
        /\ IF write_enabled(s)
           THEN /\ sub' = "modify"
                /\ UNCHANGED <<pc, error>>
           ELSE Raise(IOError("Flash did not enter a writeable state!", "", pc))
    /\ UNCHANGED <<programPin, cli_command, op, leds, status, busy, elapsed, part_id, obs,
                   bitstream, erase_first, disable_protections, address, data_remaining,
                   chunk, validateVars, readVars, bitbang,
                   registerVars, burstVars>>

\* The modifying command itself; WRITE_PAGE carries the 3-byte address and the
\* chunk.
FlashModify ==
    /\ pc \in FlashSteps
    /\ sub = "modify"
    /\ LET f == FlashStep(pc) IN
        /\ log' = Append(log, IF f.opcode = "WRITE_PAGE"
                              THEN PageCmd("WRITE_PAGE", address, chunk)
                              ELSE Cmd(f.opcode, f.bits))
        /\ sub' = IF f.wait THEN "fw_wait" ELSE "done"
    /\ UNCHANGED <<programPin, cli_command, op, pc, leds, status, busy, elapsed, error, part_id, obs,
                   bitstream, flashVars, validateVars, readVars, bitbang,
                   registerVars, burstVars>>

\* The statement is complete: flash() goes on; a page advances the address.
FlashStepDone ==
    /\ pc \in FlashSteps
    /\ sub = "done"
    /\ LET n == FlashStep(pc).next IN
        Goto(IF n = "fl_erase?" THEN (IF erase_first THEN "fl_erase" ELSE "fl_loop") ELSE n)
    /\ address' = IF pc = "fl_page" THEN address + chunk ELSE address
    /\ flash_status' = 0
    /\ UNCHANGED <<programPin, cli_command, op, log, leds, status, busy, elapsed, part_id, obs,
                   bitstream, erase_first, disable_protections, data_remaining, chunk,
                   validateVars, readVars, bitbang,
                   registerVars, burstVars>>

\* while data_remaining: take the next page off the front and write it; after
\* the loop, trigger_reconfiguration().
FlashLoop ==
    /\ pc = "fl_loop"
    /\ IF data_remaining = 0
       THEN /\ Goto("fl_reconf")
            /\ UNCHANGED <<chunk, data_remaining>>
       ELSE /\ chunk' = Min(SPI_FLASH_PAGE_SIZE, data_remaining)
            /\ data_remaining' = data_remaining - Min(SPI_FLASH_PAGE_SIZE, data_remaining)
            /\ Goto("fl_page")
    /\ UNCHANGED <<programPin, cli_command, op, log, leds, status, busy, elapsed, part_id, obs,
                   bitstream, erase_first, disable_protections, address, flash_status,
                   validateVars, readVars, bitbang,
                   registerVars, burstVars>>

-----------------------------------------------------------------------------
(* read_flash()                                                            *)

CallReadFlash ==
    /\ op = "none"
    /\ \E n \in ReadLengths : length' = n
    /\ op' = "read_flash"
    /\ pc' = "rf_enter"
    /\ sub' = "none"
    /\ ClearCall
    /\ UNCHANGED <<programPin, cli_command, bitstream, flashVars, validateVars, bytes_remaining, data,
                   responses, bitbang,
                   registerVars, burstVars>>

\* read_flash(): the READ_ID transfer and the check of its last byte, then the
\* locals of the reading loop.
ReadFlashId ==
    /\ pc = "rf_read_id"
    /\ \E id \in FlashIdValues :
        /\ log' = Append(log, ReadIdCmd(id))
        /\ IF flash_absent(id)
           THEN /\ Raise(IOError("Flash does not seem correctly connected to the FPGA!", "", pc))
                /\ UNCHANGED <<address, bytes_remaining, data>>
           ELSE /\ Goto("rf_loop")
                /\ data' = <<>>
                /\ address' = 0
                /\ bytes_remaining' = length
    /\ UNCHANGED <<programPin, cli_command, op, leds, status, busy, elapsed, part_id, obs, bitstream,
                   erase_first, disable_protections, data_remaining, chunk, flash_status,
                   validateVars, length, responses, bitbang,
                   registerVars, burstVars>>

\* while bytes_remaining: ...; return data
ReadFlashLoop ==
    /\ pc = "rf_loop"
    /\ Goto(IF bytes_remaining = 0 THEN "exit" ELSE "rf_page")
    /\ UNCHANGED <<programPin, cli_command, op, log, leds, status, busy, elapsed, part_id, obs, bitstream,
                   flashVars, validateVars, readVars, bitbang,
                   registerVars, burstVars>>

\* The response with nothing removed.
echo_trimmed_None(raw_response) == raw_response

\* raw_response[4:]
echo_trimmed(raw_response) == SubSeq(raw_response, 5, Len(raw_response))

\* The bridge has answered every transfer so far with as many bytes as were sent.
BridgeFull == \A k \in 1..Len(responses) : Len(responses[k].raw) = responses[k].sent

\* How many bytes the bridge answers to a transfer of n bytes.
AnswerLengths(n) ==
    IF Cardinality({k \in 1..Len(responses) : Len(responses[k].raw) # responses[k].sent})
           < MaxShortAnswers
    THEN {n, n - 1, 4}
    ELSE {n}

\* One turn of the loop: chunk_size, _flash_read_page(address, chunk_size) (the
\* opcode, the address bytes and chunk_size padding bytes go out, the response
\* loses its first four bytes), data.extend(chunk), and the two counters.
FlashReadPage ==
    /\ pc = "rf_page"
    /\ LET chunk_size == Min(SPI_FLASH_PAGE_SIZE, bytes_remaining) IN
        /\ log' = Append(log, PageCmd("READ_PAGE", address, chunk_size))
        /\ \E n \in AnswerLengths(4 + chunk_size) :
            LET raw_response == Response(Len(responses) + 1, n)
                page == echo_trimmed(raw_response)
            IN  /\ responses' = Append(responses, [sent |-> 4 + chunk_size, raw |-> raw_response])
                /\ data' = data \o page
                /\ address' = address + Len(page)
                /\ bytes_remaining' = bytes_remaining - Len(page)
    /\ Goto("rf_loop")
    /\ UNCHANGED <<programPin, cli_command, op, leds, status, busy, elapsed, part_id, obs, bitstream,
                   erase_first, disable_protections, data_remaining, chunk, flash_status,
                   validateVars, length, bitbang,
                   registerVars, burstVars>>

\* An exchange with the device is pending at this position.
IOPending ==
    \/ pc \in CommandSteps /\ sub \in {"shift", "wait", "check"}
    \/ pc \in CommandSteps /\ sub = "tail" /\ Step(pc).idle > 0
    \/ pc \in StatusSteps
    \/ pc = "cfg_capture_id"
    \/ pc \in {"fl_enter", "ef_enter", "fl_read_id"}
    \/ pc \in {"ri_enter", "ri_read_id"}
    \/ pc \in {"rf_enter", "rf_read_id", "rf_page"}
    \/ pc \in {"fl_protect", "fl_erase", "fl_page", "ef_erase"}
    \/ pc \in {"tr_enter", "tr_shift_ir", "tr_shift_data", "tr_release"}
    \/ pc \in {"rt_enter", "rt_reset", "rt_probe_data", "rt_probe_instruction",
               "rt_command", "rt_data", "rt_release"}

\* The exchange fails in the transport; the exception propagates.
TransportFails ==
    /\ IOPending
    /\ Raise(TransportError(pc))
    /\ Unwind
    /\ UNCHANGED <<programPin, cli_command, op, log, leds, status, part_id, obs,
                   bitstream, flashVars, validateVars, readVars, bitbang,
                   registerVars, burstVars>>

\* The call is over; the programmer is ready for the next one.
Return ==
    /\ pc = "exit"
    /\ ~CliContinues
    /\ cli_command' = NoCommand
    /\ op' = "none"
    /\ pc' = "idle"
    /\ sub' = "none"
    /\ bitstream' = 0
    /\ ClearCall
    /\ erase_first' = FALSE
    /\ disable_protections' = FALSE
    /\ address' = 0
    /\ data_remaining' = 0
    /\ chunk' = 0
    /\ flash_status' = 0
    /\ length' = 0
    /\ bytes_remaining' = 0
    /\ data' = <<>>
    /\ responses' = <<>>
    /\ reversed_bitstream' = <<>>
    /\ burst' = <<>>
    /\ transaction' = [transaction EXCEPT !.command = <<>>, !.word = <<>>, !.result = 0]
    /\ UNCHANGED <<programPin, validateVars, bitbang, instruction_width, data_width,
                   registers>>

Next ==
    \/ EnsureUnconfigured
    \/ EraseFlashCommand
    \/ ProgramFlash
    \/ ProgramFlashCallsFlash
    \/ ReadBackFlash
    \/ ReadBackFlashCallsReadFlash
    \/ PrintFlashInfo
    \/ ReadJedecId
    \/ ReadFlashUid
    \/ CallConfigure
    \/ SetLedUpload
    \/ RestartStrobe
    \/ ExecShift
    \/ WaitForCompletion
    \/ ExecCheckStatus
    \/ StepTail
    \/ CapturePartId
    \/ ReadAndValidateStatus
    \/ Finally
    \/ CallUnconfigure
    \/ PerformPreconfigurationTasks
    \/ CallEraseFlash
    \/ CallFlash
    \/ EnterBackgroundSpi
    \/ FlashReadId
    \/ FlashWaitForCompletion
    \/ EnableWriting
    \/ FlashModify
    \/ FlashStepDone
    \/ FlashLoop
    \/ CallReadFlash
    \/ ReadFlashId
    \/ ReadFlashLoop
    \/ FlashReadPage
    \/ TransportFails
    \/ Return

Spec == Init /\ [][Next]_vars

\* The program is single-threaded and keeps running: some step is always taken.
FairSpec == Spec /\ WF_vars(Next)

-----------------------------------------------------------------------------
(* _validate_status called directly, on any status and arguments.          *)

InitValidate ==
    /\ programPin = FALSE
    /\ Idle
    /\ registers = NoRegisters
    /\ vin \in [status : AllStatusValues, expect_done : BOOLEAN,
                 continue_anyway : BOOLEAN, expect_isc : BOOLEAN]
    /\ vout = [called |-> FALSE, error |-> NoError]

ValidateCall ==
    /\ ~vout.called
    /\ vout' = [called |-> TRUE,
                error |-> validate_status(vin.status, vin.expect_done, vin.continue_anyway,
                                          vin.expect_isc, "validate")]
    /\ UNCHANGED <<programPin, cli_command, op, pc, sub, log, leds, status, busy, elapsed, error, part_id,
                   obs, bitstream, flashVars, vin, readVars, bitbang,
                   registerVars, burstVars>>

NextValidate == ValidateCall

SpecValidate == InitValidate /\ [][NextValidate]_vars

-----------------------------------------------------------------------------
(* read_flash_id(), on any response to its READ_JEDEC_ID transfer.         *)

\* Bytes the checks of the byte-level helpers draw from.
ByteSample == {0, 1, 63, 128, 165, 255}

\* The 4-byte responses to [READ_JEDEC_ID, 0, 0, 0].
RawIds == {<<e, m, t, c>> : e \in {0, 159, 255}, m \in ByteSample, t \in ByteSample,
                             c \in ByteSample}

\* int.from_bytes(b, byteorder='little')
RECURSIVE from_bytes_little(_)
from_bytes_little(b) ==
    IF b = <<>> THEN 0 ELSE Head(b) + 256 * from_bytes_little(Tail(b))

\* int.from_bytes(b, byteorder='big')
RECURSIVE from_bytes_big(_)
from_bytes_big(b) ==
    IF b = <<>> THEN 0 ELSE 256 * from_bytes_big(SubSeq(b, 1, Len(b) - 1)) + b[Len(b)]

InitFlashId ==
    /\ programPin = FALSE
    /\ Idle
    /\ registers = NoRegisters
    /\ vin \in [raw_id : RawIds]
    /\ vout = [called |-> FALSE, manufacturer |-> 0, full_id |-> 0]

\* read_flash_id(): _enter_background_spi, the READ_JEDEC_ID transfer, and the
\* two values taken from the response (raw_id[1] and raw_id[1:] in the source
\* count from 0).
ReadFlashIdCall ==
    /\ ~vout.called
    /\ log' = log \o BackgroundSpiEntry \o <<Cmd("FLASH_READ_JEDEC_ID", 32)>>
    /\ LET raw_id == vin.raw_id IN
        vout' = [called |-> TRUE,
                 manufacturer |-> raw_id[2],
                 full_id |-> from_bytes_big(SubSeq(raw_id, 2, Len(raw_id)))]
    /\ UNCHANGED <<programPin, cli_command, op, pc, sub, leds, status, busy, elapsed, error, part_id,
                   obs, bitstream, flashVars, vin, readVars, bitbang,
                   registerVars, burstVars>>

NextFlashId == ReadFlashIdCall

SpecFlashId == InitFlashId /\ [][NextFlashId]_vars

-----------------------------------------------------------------------------
(* _generate_bit_reversed_bitstream, on any bitstream.                     *)

\* Every sequence over ByteSample up to MaxBytes long, and every single byte.
ByteSeqs ==
    UNION {[1..n -> ByteSample] : n \in 0..MaxBytes} \cup {<<b>> : b \in 0..255}

InitBitReverse ==
    /\ programPin = FALSE
    /\ Idle
    /\ registers = NoRegisters
    /\ vin \in [bitstream : ByteSeqs, byte_reverse : BOOLEAN]
    /\ vout = [calls |-> 0, value |-> <<>>]

\* The transform is applied to the bitstream, and then to its own result.
GenerateCall ==
    /\ vout.calls < 2
    /\ vout' = [calls |-> vout.calls + 1,
                value |-> generate_bit_reversed_bitstream(
                              IF vout.calls = 0 THEN vin.bitstream ELSE vout.value,
                              vin.byte_reverse)]
    /\ UNCHANGED <<programPin, cli_command, op, pc, sub, log, leds, status, busy, elapsed, error, part_id,
                   obs, bitstream, flashVars, vin, readVars, bitbang,
                   registerVars, burstVars>>

NextBitReverse == GenerateCall

SpecBitReverse == InitBitReverse /\ [][NextBitReverse]_vars

-----------------------------------------------------------------------------
(* ECP5_JTAGProgrammer._background_spi_transfer, on any payload and any    *)
(* bytes captured by the chain.                                            *)

\* What chain.shift_data can capture.
CapturedSample == {0, 1, 165}

\* The payloads with, for each, the captured bytes: as many as were shifted.
SpiTransfers ==
    UNION {[data : [1..n -> ByteSample], captured : [1..n -> CapturedSample],
            reverse : BOOLEAN] : n \in 0..MaxBytes}

\* jtag_ready_data: the payload byte-reversed, then each byte through
\* reverse_bits, which is the identity when the caller passes reverse=True.
jtag_ready_data(payload, reverse) ==
    LET byte_reversed_data == Reversed(payload)
    IN  [i \in 1..Len(payload) |-> IF reverse THEN byte_reversed_data[i]
                                    ELSE reverse_bits(byte_reversed_data[i])]

\* The response with its byte order reversed as well.
returned_response_ByteReversed(response, reverse) ==
    LET byte_reversed == Reversed(response)
    IN  [i \in 1..Len(response) |-> IF reverse THEN byte_reversed[i]
                                     ELSE reverse_bits(byte_reversed[i])]

\* [reverse_bits(b) for b in bytes(response)]
returned_response(response, reverse) ==
    [i \in 1..Len(response) |-> IF reverse THEN response[i] ELSE reverse_bits(response[i])]

InitSpiTransfer ==
    /\ programPin = FALSE
    /\ Idle
    /\ registers = NoRegisters
    /\ vin \in SpiTransfers
    /\ vout = [called |-> FALSE, tdi |-> <<>>, length |-> 0, value |-> <<>>]

\* _background_spi_transfer(data, reverse): one shift_data of jtag_ready_data,
\* bits_to_send bits long, and the captured bytes handed back.
BackgroundSpiTransferCall ==
    /\ ~vout.called
    /\ LET tdi == jtag_ready_data(vin.data, vin.reverse)
           bits_to_send == Len(tdi) * 8
       IN  /\ log' = Append(log, Cmd("SHIFT_DATA", bits_to_send))
           /\ vout' = [called |-> TRUE, tdi |-> tdi, length |-> bits_to_send,
                       value |-> returned_response(vin.captured, vin.reverse)]
    /\ UNCHANGED <<programPin, cli_command, op, pc, sub, leds, status, busy, elapsed, error, part_id,
                   obs, bitstream, flashVars, vin, readVars, bitbang,
                   registerVars, burstVars>>

NextSpiTransfer == BackgroundSpiTransferCall

SpecSpiTransfer == InitSpiTransfer /\ [][NextSpiTransfer]_vars

-----------------------------------------------------------------------------
(* ECP5_JTAGDebugSPIConnection.transfer                                    *)

\* The calls transfer() can receive, with the bytes its shift_data captures.
\* Its reverse_bits always reverses, as _background_spi_transfer's does when
\* called with reverse=False.
TransferCalls == {t \in SpiTransfers : ~t.reverse}

OPCODE_ER1 == 50

InitTransfer ==
    /\ programPin = FALSE
    /\ Idle
    /\ registers = NoRegisters
    /\ vin \in TransferCalls
    /\ vout = [called |-> FALSE, tdi |-> <<>>, length |-> 0, value |-> <<>>]

\* transfer(data_to_send) is called; the chain may have been left in either
\* mode by the previous caller.
CallTransfer ==
    /\ op = "none"
    /\ op' = "transfer"
    /\ pc' = "tr_enter"
    /\ sub' = "none"
    /\ ClearCall
    /\ vout' = [called |-> FALSE, tdi |-> <<>>, length |-> 0, value |-> <<>>]
    /\ UNCHANGED <<programPin, cli_command, bitstream, flashVars, vin, readVars, bitbang,
                   registerVars, burstVars>>

\* with self._chain as jtag: the session acquires the chain.
ChainEnter ==
    /\ op = "transfer" /\ pc = "tr_enter"
    /\ log' = Append(log, Cmd("JTAG_START", 0))
    /\ pc' = "tr_shift_ir"
    /\ UNCHANGED <<programPin, cli_command, op, sub, leds, status, busy, elapsed, error, part_id,
                   obs, bitstream, flashVars, validateVars, readVars, bitbang,
                   registerVars, burstVars>>

\* jtag.shift_instruction(self._opcode, state_after='IRPAUSE', length=8)
TransferShiftInstruction ==
    /\ op = "transfer" /\ pc = "tr_shift_ir"
    /\ log' = Append(log, Cmd("SHIFT_IR", OPCODE_ER1))
    /\ pc' = "tr_bitbang_on"
    /\ UNCHANGED <<programPin, cli_command, op, sub, leds, status, busy, elapsed, error, part_id,
                   obs, bitstream, flashVars, validateVars, readVars, bitbang,
                   registerVars, burstVars>>

\* jtag.force_bitbang_mode(True)
ForceBitbangOn ==
    /\ op = "transfer" /\ pc = "tr_bitbang_on"
    /\ bitbang' = TRUE
    /\ pc' = "tr_shift_data"
    /\ UNCHANGED <<programPin, cli_command, op, sub, log, leds, status, busy, elapsed, error,
                   part_id, obs, bitstream, flashVars, validateVars, readVars,
                   registerVars, burstVars>>

\* response = self._chain.shift_data(tdi=jtag_ready_data, length=bits_to_send,
\*                                   state_after='DRPAUSE')
TransferShiftData ==
    /\ op = "transfer" /\ pc = "tr_shift_data"
    /\ LET tdi == jtag_ready_data(vin.data, FALSE)
           bits_to_send == Len(tdi) * 8
       IN  /\ log' = Append(log, Cmd("SHIFT_DATA", bits_to_send))
           /\ vout' = [vout EXCEPT !.tdi = tdi, !.length = bits_to_send]
    /\ pc' = "tr_bitbang_off"
    /\ UNCHANGED <<programPin, cli_command, op, sub, leds, status, busy, elapsed, error, part_id,
                   obs, bitstream, flashVars, vin, readVars, bitbang,
                   registerVars, burstVars>>

\* jtag.force_bitbang_mode(False), then the response is bit-reversed and
\* returned through the exit of the with block.
ForceBitbangOff ==
    /\ op = "transfer" /\ pc = "tr_bitbang_off"
    /\ bitbang' = FALSE
    /\ vout' = [vout EXCEPT !.called = TRUE,
                            !.value = returned_response(vin.captured, FALSE)]
    /\ pc' = "tr_release"
    /\ UNCHANGED <<programPin, cli_command, op, sub, log, leds, status, busy, elapsed, error,
                   part_id, obs, bitstream, flashVars, vin, readVars,
                   registerVars, burstVars>>

\* The exit of the with block, on return and on exception alike: the session
\* releases the chain. Releasing does not change the shift mode.
ChainExit ==
    /\ \/ op = "transfer" /\ pc = "tr_release"
       \/ op = "register_transaction" /\ pc = "rt_release"
    /\ log' = Append(log, Cmd("JTAG_STOP", 0))
    /\ pc' = "exit"
    /\ UNCHANGED <<programPin, cli_command, op, sub, leds, status, busy, elapsed, error, part_id,
                   obs, bitstream, flashVars, validateVars, readVars, bitbang,
                   registerVars, burstVars>>

NextTransfer ==
    \/ CallTransfer
    \/ ChainEnter
    \/ TransferShiftInstruction
    \/ ForceBitbangOn
    \/ TransferShiftData
    \/ ForceBitbangOff
    \/ ChainExit
    \/ TransportFails
    \/ Return

SpecTransfer == InitTransfer /\ [][NextTransfer]_vars

-----------------------------------------------------------------------------
(* ECP5_JTAGRegisters.register_transaction                                 *)

\* The bridge's hardware: the number of ones each of its two registers answers
\* a width probe with, and the register file behind it, all zero at first.
InitRegisters ==
    /\ programPin = FALSE
    /\ Idle
    /\ vin \in [data : ProbeWidths, instruction : ProbeWidths]
    /\ vout = [called |-> FALSE]
    /\ registers = [contents |-> [a \in AddressesFor(vin.instruction) |-> 0],
                    latched  |-> [write |-> FALSE, address |-> 0]]

\* register_read(address), or register_write(address, value).
CallRegisterTransaction ==
    /\ op = "none"
    /\ op' = "register_transaction"
    /\ pc' = "rt_enter"
    /\ sub' = "none"
    /\ ClearCall
    /\ \E a \in AddressesFor(vin.instruction), w \in BOOLEAN :
       \E v \in (IF w THEN ValuesFor(vin.data) ELSE {0}) :
          transaction' =
              [NoTransaction EXCEPT
                  !.address = a, !.is_write = w, !.value = v,
                  !.previous = [address  |-> transaction.address,
                                is_write |-> transaction.is_write,
                                value    |-> transaction.value,
                                ok       |-> transaction.done]]
    /\ UNCHANGED <<programPin, cli_command, bitstream, flashVars, validateVars, readVars, bitbang,
                   instruction_width, data_width, registers, burstVars>>

\* An entry that detects the widths on every transaction.
RegisterTransactionEnter_AlwaysDetect ==
    /\ op = "register_transaction" /\ pc = "rt_enter"
    /\ log' = Append(log, Cmd("JTAG_START", 0))
    /\ pc' = "rt_reset"
    /\ UNCHANGED <<programPin, cli_command, op, sub, leds, status, busy, elapsed, error, part_id,
                   obs, bitstream, flashVars, validateVars, readVars, bitbang,
                   registerVars, burstVars>>

\* with self._chain as jtag: if (self._instruction_width is None) or
\* (self._data_width is None): self._autodetect_widths(jtag)
RegisterTransactionEnter ==
    /\ op = "register_transaction" /\ pc = "rt_enter"
    /\ log' = Append(log, Cmd("JTAG_START", 0))
    /\ pc' = IF instruction_width = None \/ data_width = None
             THEN "rt_reset" ELSE "rt_command"
    /\ UNCHANGED <<programPin, cli_command, op, sub, leds, status, busy, elapsed, error, part_id,
                   obs, bitstream, flashVars, validateVars, readVars, bitbang,
                   registerVars, burstVars>>

\* _autodetect_widths: self._chain.move_to_state('RESET')
AutodetectReset ==
    /\ op = "register_transaction" /\ pc = "rt_reset"
    /\ log' = Append(log, Cmd("MOVE_TO_STATE", 0))
    /\ pc' = "rt_probe_data"
    /\ UNCHANGED <<programPin, cli_command, op, sub, leds, status, busy, elapsed, error, part_id,
                   obs, bitstream, flashVars, validateVars, readVars, bitbang,
                   registerVars, burstVars>>

\* A detection that probes the instruction register before the data register.
AutodetectWidthFor_InstructionFirst ==
    /\ op = "register_transaction"
    /\ pc \in {"rt_probe_data", "rt_probe_instruction"}
    /\ \E tail \in {0, 1} :
       LET first    == pc = "rt_probe_data"
           opcode   == IF first THEN OPCODE_INSTRUCTION ELSE OPCODE_DATA
           ones     == IF first THEN vin.instruction ELSE vin.data
           response == Reversed(shift_data_capture(ProbeOutput(ones, tail)))
           width    == autodetect_width_for(response)
       IN  /\ log' = log \o <<Cmd("SHIFT_IR", opcode), Cmd("SHIFT_DATA", PROBE_LENGTH)>>
           /\ instruction_width' = IF first THEN width ELSE instruction_width
           /\ data_width' = IF first THEN data_width ELSE width
           /\ pc' = IF first THEN "rt_probe_instruction" ELSE "rt_check"
    /\ UNCHANGED <<programPin, cli_command, op, sub, leds, status, busy, elapsed, error, part_id,
                   obs, bitstream, flashVars, validateVars, readVars, bitbang,
                   registers, transaction, burstVars>>

\* _autodetect_width_for(opcode, chain), for the data register and then for
\* the instruction register.
AutodetectWidthFor ==
    /\ op = "register_transaction"
    /\ pc \in {"rt_probe_data", "rt_probe_instruction"}
    /\ \E tail \in {0, 1} :
       LET of_data  == pc = "rt_probe_data"
           opcode   == IF of_data THEN OPCODE_DATA ELSE OPCODE_INSTRUCTION
           ones     == IF of_data THEN vin.data ELSE vin.instruction
           response == Reversed(shift_data_capture(ProbeOutput(ones, tail)))
           width    == autodetect_width_for(response)
       IN  /\ log' = log \o <<Cmd("SHIFT_IR", opcode), Cmd("SHIFT_DATA", PROBE_LENGTH)>>
           /\ data_width' = IF of_data THEN width ELSE data_width
           /\ instruction_width' = IF of_data THEN instruction_width ELSE width
           /\ pc' = IF of_data THEN "rt_probe_instruction" ELSE "rt_check"
    /\ UNCHANGED <<programPin, cli_command, op, sub, leds, status, busy, elapsed, error, part_id,
                   obs, bitstream, flashVars, validateVars, readVars, bitbang,
                   registers, transaction, burstVars>>

\* _autodetect_widths: the sanity check of the detected shape.
AutodetectCheck ==
    /\ op = "register_transaction" /\ pc = "rt_check"
    /\ transaction' = [transaction EXCEPT !.detected = TRUE]
    /\ IF invalid_shape(instruction_width, data_width)
       THEN Raise(IOError("Failed to autonegotiate meta-JTAG address/register size.",
                          "", pc))
       ELSE /\ pc' = "rt_command"
            /\ UNCHANGED <<sub, error>>
    /\ UNCHANGED <<programPin, cli_command, op, log, leds, status, busy, elapsed, part_id,
                   obs, bitstream, flashVars, validateVars, readVars, bitbang,
                   instruction_width, data_width, registers, burstVars>>

\* The command a register of the bridge decodes from the word shifted into its
\* instruction register: the first bit is the write flag, the rest the address.
decode_command(word, latched) ==
    IF word = <<>> THEN latched
    ELSE [write |-> word[1] = 1, address |-> int_base2(Tail(word))]

\* Computing the two words, then self._shift_instruction(jtag, command):
\* shift_instruction(OPCODE_INSTRUCTION), shift_data of the command word,
\* run_test(32). 1 << (width - 1) raises ValueError for width 0; whether
\* bits() takes a length of 0 is not known, so both outcomes are possible.
ShiftInstructionWord ==
    /\ op = "register_transaction" /\ pc = "rt_command"
    /\ LET command == command_word(transaction.address, transaction.is_write,
                                   instruction_width)
           word    == bits(transaction.value, data_width)
           shifted ==
              /\ log' = log \o <<Cmd("SHIFT_IR", OPCODE_INSTRUCTION),
                                Cmd("SHIFT_WORD", instruction_width),
                                Cmd("RUN_TEST", 32)>>
              /\ transaction' = [transaction EXCEPT !.command = command, !.word = word]
              /\ registers' = [registers EXCEPT
                                 !.latched = decode_command(command, registers.latched)]
              /\ pc' = "rt_data"
              /\ UNCHANGED <<sub, error>>
           rejected ==
              /\ Raise([kind |-> "ValueError", msg |-> "", detail |-> "", at |-> pc])
              /\ UNCHANGED <<log, transaction, registers>>
       IN  IF transaction.is_write /\ instruction_width - 1 < 0 THEN rejected
           ELSE IF instruction_width = 0 \/ data_width = 0 THEN shifted \/ rejected
           ELSE shifted
    /\ UNCHANGED <<programPin, cli_command, op, leds, status, busy, elapsed, part_id,
                   obs, bitstream, flashVars, validateVars, readVars, bitbang,
                   instruction_width, data_width, burstVars>>

\* raw_result = self._shift_data(jtag, value); result = int(raw_result). The
\* register addressed answers with its contents and, on a write, stores the
\* value word.
ShiftDataWord ==
    /\ op = "register_transaction" /\ pc = "rt_data"
    /\ LET at         == registers.latched.address
           raw_result == bits(registers.contents[at], data_width)
       IN  /\ log' = log \o <<Cmd("SHIFT_IR", OPCODE_DATA),
                             Cmd("SHIFT_WORD", data_width),
                             Cmd("RUN_TEST", 32)>>
           /\ registers' = IF registers.latched.write
                           THEN [registers EXCEPT
                                    !.contents[at] = int_base2(transaction.word)]
                           ELSE registers
           /\ transaction' = [transaction EXCEPT !.result = int_base2(raw_result),
                                                 !.done = TRUE]
    /\ pc' = "rt_release"
    /\ UNCHANGED <<programPin, cli_command, op, sub, leds, status, busy, elapsed, error, part_id,
                   obs, bitstream, flashVars, validateVars, readVars, bitbang,
                   instruction_width, data_width, burstVars>>

NextRegisters ==
    \/ CallRegisterTransaction
    \/ RegisterTransactionEnter
    \/ AutodetectReset
    \/ AutodetectWidthFor
    \/ AutodetectCheck
    \/ ShiftInstructionWord
    \/ ShiftDataWord
    \/ ChainExit
    \/ TransportFails
    \/ Return

SpecRegisters == InitRegisters /\ [][NextRegisters]_vars

-----------------------------------------------------------------------------
(* ApolloDebugger.__init__                                                 *)

EXTERNAL_BOARD_MAJOR == 255

\* How many times create_jtag_spi is called on a constructed debugger.
MaxCreated == 2

\* bcdDevice of the boards attached: external boards, r0.x, r1.x and a
\* subdevice major, with minor revisions on both sides of 3.
BcdDevices == {256 * M + m : M \in {0, 1, 254, EXTERNAL_BOARD_MAJOR}, m \in {0, 2, 3, 4}}

\* minor = self.device.bcdDevice & 0xFF; major = self.device.bcdDevice >> 8
get_hardware_revision(bcdDevice) == [major |-> bcdDevice \div 256, minor |-> bcdDevice % 256]

\* Python's None where an object is expected, and the objects the constructor
\* creates, told apart by the order of their creation.
NoObject == [class |-> "None", chain |-> 0, id |-> 0]
Object(class, chain, id) == [class |-> class, chain |-> chain, id |-> id]

\* create_jtag_spi without the branch for r0.1 and r0.2.
create_jtag_spi_NoOldRevisions(major, minor, jtag_chain, id) ==
    IF major = EXTERNAL_BOARD_MAJOR
    THEN [spi |-> NoObject, registers |-> NoObject]
    ELSE [spi       |-> Object("ECP5_JTAGDebugSPIConnection", jtag_chain.id, id),
          registers |-> Object("ECP5_JTAGRegisters", jtag_chain.id, id + 1)]

\* create_jtag_spi(jtag_chain): (None, None) for an external board and for
\* r0.1 and r0.2, and otherwise two new objects over the chain.
create_jtag_spi(major, minor, jtag_chain, id) ==
    IF major = EXTERNAL_BOARD_MAJOR
    THEN [spi |-> NoObject, registers |-> NoObject]
    ELSE IF major = 0 /\ minor < 3
    THEN [spi |-> NoObject, registers |-> NoObject]
    ELSE [spi       |-> Object("ECP5_JTAGDebugSPIConnection", jtag_chain.id, id),
          registers |-> Object("ECP5_JTAGRegisters", jtag_chain.id, id + 1)]

DebuggerNotFound(msg, at) ==
    [kind |-> "DebuggerNotFound", msg |-> msg, detail |-> "", at |-> at]
USBError(at) == [kind |-> "USBError", msg |-> "", detail |-> "", at |-> at]

\* What _find_device(APOLLO_USB_IDS, custom_match=_device_has_apollo_id) can
\* do: return a device, return None, or let through the USBError that
\* _device_has_apollo_id re-raises when its request fails with an errno other
\* than EPIPE.
FindOutcomes == {"found", "none", "usb_error"}

\* What _request_handoff can do: send the request; raise DebuggerNotFound
\* because the stub interface is gone; raise USBError when claiming the
\* interface, before the request; raise USBError from the control transfer.
HandoffOutcomes == {"sent", "no_stub", "usb_error_claim", "usb_error_transfer"}

\* No debugger yet: nothing searched, nothing requested, no attribute set.
NewDebugger ==
    [device |-> "none", apollo |-> "unsearched", stub |-> "unsearched",
     handoff |-> "none", again |-> "unsearched", major |-> 0, minor |-> 0,
     jtag |-> NoObject, spi |-> NoObject, registers |-> NoObject, created |-> 0]

InitDebugger ==
    /\ programPin = FALSE
    /\ Idle
    /\ registers = NoRegisters
    /\ vin \in [device_given : BOOLEAN, force_offline : BOOLEAN, bcdDevice : BcdDevices]
    /\ vout = NewDebugger

\* ApolloDebugger(force_offline, device)
Construct ==
    /\ op = "none"
    /\ pc = "idle"
    /\ op' = "ApolloDebugger"
    /\ pc' = IF vin.device_given THEN "dbg_attach" ELSE "dbg_find"
    /\ vout' = [vout EXCEPT !.device = IF vin.device_given THEN "given" ELSE "none"]
    /\ UNCHANGED <<programPin, cli_command, sub, log, leds, status, busy, elapsed, error,
                   part_id, obs, bitstream, flashVars, vin, readVars, bitbang,
                   registerVars, burstVars>>

\* if device is None: device = self._find_device(self.APOLLO_USB_IDS, ...)
FindApollo ==
    /\ pc = "dbg_find"
    /\ \E found \in FindOutcomes :
        /\ vout' = [vout EXCEPT !.apollo = found,
                                !.device = IF found = "found" THEN "apollo" ELSE @]
        /\ IF found = "usb_error" THEN Raise(USBError(pc))
           ELSE /\ pc' = IF found = "found" THEN "dbg_attach" ELSE "dbg_find_stub"
                /\ UNCHANGED <<sub, error>>
    /\ UNCHANGED <<programPin, cli_command, op, log, leds, status, busy, elapsed,
                   part_id, obs, bitstream, flashVars, vin, readVars, bitbang,
                   registerVars, burstVars>>

\* fpga_device = self._find_device(self.LUNA_USB_IDS, ...), and the two raises
\* that follow it.
FindStub ==
    /\ pc = "dbg_find_stub"
    /\ \E found \in {"found", "none"} :
        /\ vout' = [vout EXCEPT !.stub = found]
        /\ IF found = "none"
           THEN Raise(DebuggerNotFound("No Apollo debugger or stub interface found.", pc))
           ELSE IF ~vin.force_offline
           THEN Raise(DebuggerNotFound(
                   "Apollo stub interface found but not requested to be forced offline.",
                   pc))
           ELSE /\ pc' = "dbg_handoff"
                /\ UNCHANGED <<sub, error>>
    /\ UNCHANGED <<programPin, cli_command, op, log, leds, status, busy, elapsed,
                   part_id, obs, bitstream, flashVars, vin, readVars, bitbang,
                   registerVars, burstVars>>

\* try: self._request_handoff(fpga_device); except usb.USBError: raise
\* DebuggerNotFound(...)
RequestHandoff ==
    /\ pc = "dbg_handoff"
    /\ \E outcome \in HandoffOutcomes :
        /\ vout' = [vout EXCEPT !.handoff = outcome]
        /\ IF outcome = "sent"
           THEN /\ pc' = "dbg_find_again"
                /\ UNCHANGED <<sub, error>>
           ELSE IF outcome = "no_stub"
           THEN Raise(DebuggerNotFound("No Apollo stub interface found", pc))
           ELSE Raise(DebuggerNotFound("Handoff request failed", pc))
    /\ UNCHANGED <<programPin, cli_command, op, log, leds, status, busy, elapsed,
                   part_id, obs, bitstream, flashVars, vin, readVars, bitbang,
                   registerVars, burstVars>>

\* device = self._find_device(self.APOLLO_USB_IDS, ..., timeout=5000), and the
\* raise when it returns None.
FindAgain ==
    /\ pc = "dbg_find_again"
    /\ \E found \in FindOutcomes :
        /\ vout' = [vout EXCEPT !.again = found,
                                !.device = IF found = "found" THEN "apollo" ELSE @]
        /\ IF found = "usb_error" THEN Raise(USBError(pc))
           ELSE IF found = "none"
           THEN Raise(DebuggerNotFound(
                   "Handoff was requested, but Apollo debugger not found.", pc))
           ELSE /\ pc' = "dbg_attach"
                /\ UNCHANGED <<sub, error>>
    /\ UNCHANGED <<programPin, cli_command, op, log, leds, status, busy, elapsed,
                   part_id, obs, bitstream, flashVars, vin, readVars, bitbang,
                   registerVars, burstVars>>

\* self.device = device and the rest of the constructor: the revision, the
\* JTAG chain, create_jtag_spi, and the hardware SPI when that returns None.
AttachDevice ==
    /\ pc = "dbg_attach"
    /\ LET revision == get_hardware_revision(vin.bcdDevice)
           jtag     == Object("JTAGChain", 0, 1)
           tunnel   == create_jtag_spi(revision.major, revision.minor, jtag, 2)
           hard     == Object("DebugSPIConnection", 0, 2)
       IN  vout' = [vout EXCEPT
                       !.major = revision.major,
                       !.minor = revision.minor,
                       !.jtag = jtag,
                       !.spi = IF tunnel.spi = NoObject THEN hard ELSE tunnel.spi,
                       !.registers = IF tunnel.spi = NoObject THEN hard
                                     ELSE tunnel.registers]
    /\ pc' = "exit"
    /\ UNCHANGED <<programPin, cli_command, op, sub, log, leds, status, busy, elapsed,
                   error, part_id, obs, bitstream, flashVars, vin, readVars, bitbang,
                   registerVars, burstVars>>

\* A later device.create_jtag_spi(device.jtag), as the jtag-spi and jtag-reg
\* commands make: it returns new objects and assigns nothing.
CreateJtagSpiCall ==
    /\ op = "ApolloDebugger"
    /\ pc = "exit"
    /\ error = NoError
    /\ vout.created < MaxCreated
    /\ vout' = [vout EXCEPT !.created = @ + 1]
    /\ UNCHANGED <<programPin, cli_command, op, pc, sub, log, leds, status, busy,
                   elapsed, error, part_id, obs, bitstream, flashVars, vin, readVars,
                   bitbang, registerVars, burstVars>>

NextDebugger ==
    \/ Construct
    \/ FindApollo
    \/ FindStub
    \/ RequestHandoff
    \/ FindAgain
    \/ AttachDevice
    \/ CreateJtagSpiCall

SpecDebugger == InitDebugger /\ [][NextDebugger]_vars

-----------------------------------------------------------------------------
(* gateware.flash_bridge.SPIStreamController, one step per clock cycle      *)

\* self.period = 4
period == 4

\* The registers after reset: the FSM in its first state, every signal 0. The
\* history counts the falling clock edges since the byte in shreg_o was
\* accepted and keeps the last flag that came with it.
ResetController ==
    [fsm |-> "IDLE", cycles |-> 0, sck_d |-> 0, shreg_o |-> 0, shreg_i |-> 0,
     count_o |-> 0, last |-> FALSE, output_valid |-> FALSE, output_last |-> FALSE,
     falls |-> 0, accepted_last |-> FALSE]

\* What the input stream presents in a cycle: nothing, or a byte with its last
\* flag; and how the flash drives sdo for the run.
StreamInputs ==
    {[valid |-> FALSE, payload |-> 0, last |-> FALSE]}
        \cup [valid : {TRUE}, payload : {0, 165, 255}, last : BOOLEAN]
SdoModes == {"zeros", "ones", "loopback"}

\* bus.sck: 0 in IDLE, WAIT and END; cycles[-1] in SHIFT.
bus_sck(r) == IF r.fsm = "SHIFT" THEN (r.cycles \div (period \div 2)) % 2 ELSE 0

\* bus.cs.eq(~fsm.ongoing('IDLE'))
bus_cs(r) == IF r.fsm # "IDLE" THEN 1 ELSE 0

\* sck_fall.eq(sck_d & ~bus.sck); sck_rise.eq(~sck_d & bus.sck)
sck_fall(r) == r.sck_d = 1 /\ bus_sck(r) = 0
sck_rise(r) == r.sck_d = 0 /\ bus_sck(r) = 1

\* input.ready in each state.
input_ready(r) ==
    CASE r.fsm \in {"IDLE", "WAIT"} -> TRUE
      [] r.fsm = "SHIFT" -> sck_fall(r) /\ r.count_o = 0 /\ ~r.last
      [] r.fsm = "END" -> FALSE

\* bus.sdi.eq(shreg_o[-1]), and the bit the flash answers with.
bus_sdi(r) == r.shreg_o \div 128
bus_sdo(r, mode) ==
    IF mode = "zeros" THEN 0 ELSE IF mode = "ones" THEN 1 ELSE bus_sdi(r)

\* An FSM that releases the bus when the input stalls at the end of a byte.
fsm_next_StallEndsPacket(r, in) ==
    CASE r.fsm \in {"IDLE", "WAIT"} -> IF in.valid THEN "SHIFT" ELSE r.fsm
      [] r.fsm = "SHIFT" ->
            IF sck_fall(r) /\ r.count_o = 0
            THEN IF r.last THEN "END" ELSE IF ~in.valid THEN "IDLE" ELSE "SHIFT"
            ELSE "SHIFT"
      [] r.fsm = "END" -> "IDLE"

\* m.next of each state.
fsm_next(r, in) ==
    CASE r.fsm \in {"IDLE", "WAIT"} -> IF in.valid THEN "SHIFT" ELSE r.fsm
      [] r.fsm = "SHIFT" ->
            IF sck_fall(r) /\ r.count_o = 0
            THEN IF r.last THEN "END" ELSE IF ~in.valid THEN "WAIT" ELSE "SHIFT"
            ELSE "SHIFT"
      [] r.fsm = "END" -> "IDLE"

\* The registers after the clock edge, from the registers and the inputs of
\* the cycle. The load of an accepted byte is the last assignment and wins.
Clocked(r, in, mode) ==
    LET shifting == r.fsm = "SHIFT"
        fall     == shifting /\ sck_fall(r)
        rise     == shifting /\ sck_rise(r)
        accept   == in.valid /\ input_ready(r)
    IN  [fsm      |-> fsm_next(r, in),
         cycles   |-> IF shifting THEN (r.cycles + 1) % period
                      ELSE IF r.fsm = "END" THEN 0 ELSE r.cycles,
         sck_d    |-> bus_sck(r),
         shreg_o  |-> IF accept THEN in.payload
                      ELSE IF fall THEN (2 * r.shreg_o) % 256 ELSE r.shreg_o,
         shreg_i  |-> IF rise THEN ((2 * r.shreg_i) % 256) + bus_sdo(r, mode)
                      ELSE r.shreg_i,
         count_o  |-> IF accept THEN 7
                      ELSE IF fall THEN (r.count_o + 7) % 8 ELSE r.count_o,
         last     |-> IF accept THEN in.last
                      ELSE IF r.fsm = "END" THEN FALSE ELSE r.last,
         output_valid |-> IF rise THEN r.count_o = 0
                          ELSE IF shifting THEN FALSE ELSE r.output_valid,
         output_last  |-> IF rise THEN r.last ELSE r.output_last,
         falls    |-> IF accept THEN 0 ELSE IF fall THEN r.falls + 1 ELSE r.falls,
         accepted_last |-> IF accept THEN in.last ELSE r.accepted_last]

InitSpiStream ==
    /\ programPin = FALSE
    /\ Idle
    /\ registers = NoRegisters
    /\ vin \in [stream : StreamInputs, sdo : SdoModes]
    /\ vout = ResetController

\* One cycle of the sync domain; the input stream presents what it likes in
\* the next one.
SpiStreamClock ==
    /\ vout' = Clocked(vout, vin.stream, vin.sdo)
    /\ \E in \in StreamInputs : vin' = [vin EXCEPT !.stream = in]
    /\ UNCHANGED <<programPin, cli_command, op, pc, sub, log, leds, status, busy,
                   elapsed, error, part_id, obs, bitstream, flashVars, readVars,
                   bitbang, registerVars, burstVars>>

NextSpiStream == SpiStreamClock

SpecSpiStream == InitSpiStream /\ [][NextSpiStream]_vars

-----------------------------------------------------------------------------
(* gateware.advertiser: ApolloAdvertiser and its request handler, one step  *)
(* per clock edge of the sync domain, of the usb domain, or of both         *)

\* half_period = int(self.clk_freq_hz * 10e-3), for small clock frequencies.
MaxHalfPeriod == 3

REQUEST_APOLLO_ADV_STOP == 240

\* What the USB interface presents to the request handler in a cycle.
SetupPackets ==
    [type : {"STANDARD", "VENDOR"}, recipient : {"DEVICE", "INTERFACE"},
     index : {0, 1}, request : {REQUEST_APOLLO_ADV_STOP, REQUEST_APOLLO_ADV_STOP + 1}]
InterfaceInputs ==
    [setup : SetupPackets, rx_ready_for_response : BOOLEAN, status_requested : BOOLEAN]

\* The two nested m.If of the request handler.
handles_request(setup, if_number) ==
    /\ setup.type = "VENDOR"
    /\ setup.recipient = "INTERFACE"
    /\ setup.index = if_number
    /\ setup.request = REQUEST_APOLLO_ADV_STOP

\* The combinational outputs of the request handler.
HandlerOutputs(in, if_number) ==
    [claim |-> handles_request(in.setup, if_number),
     ack   |-> handles_request(in.setup, if_number) /\ in.rx_ready_for_response,
     zlp   |-> handles_request(in.setup, if_number) /\ in.status_requested]

\* The stop pin after a usb clock edge with a handler that also clears it.
stop_next_Cleared(stop, in, if_number) ==
    handles_request(in.setup, if_number) /\ in.status_requested

\* The stop pin after a usb clock edge: m.d.usb += self.stop_pin.eq(1).
stop_next(stop, in, if_number) ==
    IF handles_request(in.setup, if_number) /\ in.status_requested THEN TRUE ELSE stop

\* A generated clock that keeps running when stop is asserted.
clk_next_IgnoresStop(clk, timer, stop) == IF timer = 0 THEN 1 - clk ELSE clk

\* The generated clock after a sync clock edge.
clk_next(clk, timer, stop) == IF timer = 0 /\ ~stop THEN 1 - clk ELSE clk

\* timer.eq(Mux(timer == half_period-1, 0, timer+1))
timer_next(timer, half_period) == IF timer = half_period - 1 THEN 0 ELSE timer + 1

\* self.pad.o.eq(clk)
pad_o(r) == r.clk

\* The advertiser after a clock edge of the given domains. since counts the
\* sync edges after the last toggle, up to half_period; toggled tells whether
\* the clock has toggled at all; ticked names the domains of the last edge.
AdvertiserClocked(r, in, domains) ==
    LET sync   == domains \in {"sync", "both"}
        usb    == domains \in {"usb", "both"}
        clk1   == IF sync THEN clk_next(r.clk, r.timer, r.stop) ELSE r.clk
        toggle == clk1 # r.clk
    IN  [timer   |-> IF sync THEN timer_next(r.timer, vin.half_period) ELSE r.timer,
         clk     |-> clk1,
         stop    |-> IF usb THEN stop_next(r.stop, in, vin.if_number) ELSE r.stop,
         since   |-> IF toggle THEN 0
                     ELSE IF sync /\ r.since < vin.half_period THEN r.since + 1
                     ELSE r.since,
         toggled |-> r.toggled \/ toggle,
         ticked  |-> domains]

InitAdvertiser ==
    /\ programPin = FALSE
    /\ Idle
    /\ registers = NoRegisters
    /\ vin \in [if_number : {0, 1}, half_period : 1..MaxHalfPeriod,
                 interface : InterfaceInputs]
    /\ vout = [timer |-> 0, clk |-> 0, stop |-> FALSE, since |-> 0,
               toggled |-> FALSE, ticked |-> "none"]

AdvertiserStep(domains) ==
    /\ vout' = AdvertiserClocked(vout, vin.interface, domains)
    /\ \E in \in InterfaceInputs : vin' = [vin EXCEPT !.interface = in]
    /\ UNCHANGED <<programPin, cli_command, op, pc, sub, log, leds, status, busy,
                   elapsed, error, part_id, obs, bitstream, flashVars, readVars,
                   bitbang, registerVars, burstVars>>

SyncClock == AdvertiserStep("sync")
UsbClock == AdvertiserStep("usb")
BothClocks == AdvertiserStep("both")

NextAdvertiser == SyncClock \/ UsbClock \/ BothClocks

SpecAdvertiser == InitAdvertiser /\ [][NextAdvertiser]_vars

-----------------------------------------------------------------------------
(* Properties.                                                             *)

InLog(c) == \E i \in 1..Len(log) : log[i].cmd = c
Positions(c) == {i \in 1..Len(log) : log[i].cmd = c}
Exited(o) == op = o /\ pc = "exit"

GuardedByIsc == {"ISC_ERASE", "LSC_SET_WORKING_ADDRESS", "LSC_BITSTREAM_BURST"}
C2_IscCheckedBeforeErase ==
    op = "configure" =>
        /\ \A i \in 1..Len(log) :
              log[i].cmd \in GuardedByIsc =>
                  /\ obs.isc = "set"
                  /\ \E j, k \in 1..(i - 1) :
                        /\ j < k
                        /\ log[j].cmd = "ISC_ENABLE"
                        /\ log[k].cmd = "LSC_READ_STATUS"
        /\ obs.isc = "clear" =>
              /\ pc \in {"cfg_finally", "exit"}
              /\ error.kind = "IOError"
              /\ error.at = "cfg_status_isc"
              /\ \A c \in GuardedByIsc : ~InLog(c)

\* The burst has been issued, after an isc-enable status.
C2_Witness ==
    /\ op = "configure"
    /\ InLog("LSC_BITSTREAM_BURST")
    /\ obs.isc = "set"

\* C3: configure() returns without error only if done was set in the status read
\* after the burst and in the one after ISC_DISABLE; when done is clear in either,
\* the call raises an IOError whose message carries the text of the 3-bit error
\* code (bits 23..25) of that status.
C3_DoneRequired ==
    op = "configure" =>
        /\ (pc = "exit" /\ error.kind = "none") =>
              (obs.done_burst = "set" /\ obs.done_final = "set")
        /\ (obs.done_burst = "clear" \/ obs.done_final = "clear") =>
              /\ pc \in {"cfg_finally", "exit"}
              /\ error.kind = "IOError"
              /\ error.at = (IF obs.done_burst = "clear" THEN "cfg_status_done"
                             ELSE "cfg_status_final")
              /\ error.detail = STATUS_ERROR_CODES[(status % 67108864) \div 8388608]

\* done was clear after ISC_DISABLE, with error code 7, and the call has raised.
C3_Witness ==
    /\ Exited("configure")
    /\ obs.done_burst = "set"
    /\ obs.done_final = "clear"
    /\ error.msg = "Configuration failed"
    /\ error.detail = "bitstream provides data past the device's SRAM array"

\* C4 as claimed: whenever configure() has exited after issuing ISC_ENABLE, by
\* success or by any failure, ISC_DISABLE has been issued after that ISC_ENABLE.
DisabledAfterEnable ==
    \E i \in Positions("ISC_ENABLE") : \E j \in Positions("ISC_DISABLE") : i < j
C4_TornDownOnEveryExit ==
    (Exited("configure") /\ InLog("ISC_ENABLE")) => DisabledAfterEnable

\* C4 as amended: ISC_DISABLE is issued only by the ISC_DISABLE statement of the
\* normal path. A configure() that returns normally, or that fails in the final
\* status read, has issued ISC_DISABLE after ISC_ENABLE; one that fails at any
\* earlier statement exits with ISC_DISABLE never issued.
BeforeDisable == {"cfg_restart", "cfg_capture_id", "cfg_unlock", "cfg_isc_enable",
                  "cfg_status_isc", "cfg_erase", "cfg_status_erase", "cfg_swa", "cfg_burst",
                  "cfg_idle", "cfg_status_done"}
C4_DisabledOnlyOnNormalPath ==
    Exited("configure") =>
        /\ (error.kind = "none" \/ error.at = "cfg_status_final") => DisabledAfterEnable
        /\ error.at \in BeforeDisable => ~InLog("ISC_DISABLE")

\* configure() has failed after ISC_ENABLE, in the status read after the burst,
\* and has exited with ISC_DISABLE never issued.
C4_Witness ==
    /\ Exited("configure")
    /\ error.at = "cfg_status_done"
    /\ InLog("ISC_ENABLE")
    /\ ~InLog("ISC_DISABLE")

\* C5 as claimed: error flags in the status after the SRAM erase has completed
\* do not abort configure(); at the erase step only a busy-wait timeout is fatal.
C5_OnlyTimeoutFatalAtErase ==
    (op = "configure" /\ error.kind = "IOError" /\ error.at = "cfg_erase")
        => error.msg = "ECP5 request timed out waiting for completion"

\* C5 as amended: error flags in the status that configure() reads itself after
\* the erase (validated with continue_anyway) never abort: the call goes on to
\* LSC_SET_WORKING_ADDRESS. The flags are fatal in the status checks that
\* ISC_ERASE and LSC_SET_WORKING_ADDRESS run themselves (check_status), as is
\* the busy-wait timeout.
C5_PostEraseReadContinues ==
    op = "configure" =>
        /\ error.at = "cfg_status_erase" => error.kind = "TransportError"
        /\ obs.erase_flags = "set" =>
              \/ pc = "cfg_swa" /\ error.kind = "none"
              \/ InLog("LSC_SET_WORKING_ADDRESS")
              \/ error.at = "cfg_swa" /\ error.kind = "TransportError"
        /\ (error.kind = "IOError" /\ error.at \in {"cfg_erase", "cfg_swa"}) =>
              error.msg \in {"ECP5 request timed out waiting for completion",
                             "Failed to execute last command!",
                             "Failed to verify device IDCODE!",
                             "Last command was invalid!"}

\* The post-erase read showed error flags, and the burst has been issued.
C5_Witness ==
    /\ op = "configure"
    /\ obs.erase_flags = "set"
    /\ InLog("LSC_BITSTREAM_BURST")

\* C6: a configure() that has returned normally has issued, once each and in
\* this order: the restart (LSC_REFRESH), the 0x1C write of 510 bits, ISC_ENABLE,
\* ISC_ERASE followed by its busy wait, LSC_SET_WORKING_ADDRESS, one
\* LSC_BITSTREAM_BURST shifting all 8 * len(bitstream) bits, the idle time
\* (NO_OP and 100 cycles), a status read that showed done, ISC_DISABLE, and a
\* last status read that showed done.
ProtocolCommands == {"LSC_REFRESH", "0x1C", "ISC_ENABLE", "ISC_ERASE", "LSC_CHECK_BUSY",
                     "LSC_SET_WORKING_ADDRESS", "LSC_BITSTREAM_BURST", "NO_OP",
                     "ISC_DISABLE"}
IsProtocolStep(e) == e.cmd \in ProtocolCommands \/ e = Cmd("RUN_TEST", 100)
C6_StepsInOrder ==
    (Exited("configure") /\ error.kind = "none") =>
        /\ SelectSeq(log, IsProtocolStep) =
              <<Cmd("LSC_REFRESH", 0), Cmd("LSC_CHECK_BUSY", 8), Cmd("0x1C", 510),
                Cmd("ISC_ENABLE", 8), Cmd("ISC_ERASE", 8), Cmd("LSC_CHECK_BUSY", 8),
                Cmd("LSC_SET_WORKING_ADDRESS", 8), Cmd("LSC_BITSTREAM_BURST", 8 * bitstream),
                Cmd("NO_OP", 0), Cmd("RUN_TEST", 100), Cmd("ISC_DISABLE", 0)>>
        /\ \E i \in Positions("RUN_TEST") : \E j \in Positions("ISC_DISABLE") :
              /\ log[i].arg = 100
              /\ j = i + 2
              /\ log[i + 1].cmd = "LSC_READ_STATUS"
        /\ log[Len(log)].cmd = "LSC_READ_STATUS"
        /\ obs.done_burst = "set"
        /\ obs.done_final = "set"

\* configure() has returned normally for a bitstream of more than one byte.
C6_Witness ==
    /\ Exited("configure")
    /\ error.kind = "none"
    /\ bitstream > 1
    /\ InLog("LSC_BITSTREAM_BURST")

\* C7: _validate_status raises when STATUS_FLAG_FAIL (bit 13) is set and
\* continue_anyway is false; with continue_anyway true it returns normally for
\* every status and every combination of expect_done and expect_isc.
C7_ContinueAnywayNeverRaises ==
    vout.called =>
        /\ ((vin.status \div 8192) % 2 = 1 /\ ~vin.continue_anyway)
              => vout.error.kind = "IOError"
        /\ vin.continue_anyway => vout.error.kind = "none"

\* _validate_status has returned normally with continue_anyway for a status with
\* the fail flag set, done and isc-enable clear, both expected.
C7_Witness ==
    /\ vout.called
    /\ vout.error.kind = "none"
    /\ vin.continue_anyway
    /\ vin.expect_done
    /\ vin.expect_isc
    /\ vin.status = STATUS_FLAG_FAIL + STATUS_FLAG_BUSY

\* C8: _wait_for_completion leaves its loop in one of two ways, unless the busy
\* check itself fails in the transport: it returns normally, and then the busy
\* check just made read not busy; or it raises the timeout error naming the
\* awaited opcode, and then the device was just read busy and the deadline
\* taken at entry has passed. While it stays in the loop the device was read busy
\* and the deadline has not passed. And it always leaves the loop.
Waiting == pc \in CommandSteps /\ sub = "wait"
C8_WaitStep ==
    Waiting =>
        /\ (Waiting' /\ UNCHANGED <<op, pc>>) =>
              (busy' = 1 /\ elapsed' <= WAIT_TIMEOUT_MS) \/ UNCHANGED vars
        /\ (~Waiting' /\ error'.kind = "none") => busy' = 0
        /\ (~Waiting' /\ error'.kind = "IOError") =>
              /\ error'.msg = "ECP5 request timed out waiting for completion"
              /\ error'.detail = Step(pc).opcode
              /\ busy' = 1
              /\ elapsed' > WAIT_TIMEOUT_MS
C8_WaitTerminates ==
    /\ [][C8_WaitStep]_vars
    /\ (Waiting ~> ~Waiting)

\* The wait after ISC_ERASE has timed out.
C8_Witness ==
    /\ op = "configure"
    /\ error.msg = "ECP5 request timed out waiting for completion"
    /\ error.detail = "ISC_ERASE"
    /\ elapsed > WAIT_TIMEOUT_MS

\* C9: flash busy polling is bounded: whenever _flash_wait_for_completion is
\* polling, it eventually leaves its loop, also against a flash whose busy bit
\* never clears (by a timeout error then).
FlashWaiting == pc \in FlashSteps /\ sub \in {"ew_wait", "fw_wait"}
C9_FlashPollTerminates == FlashWaiting ~> ~FlashWaiting

\* C10: WRITE_PAGE, CHIP_ERASE and WRITE_STATUS1 are transmitted only right after
\* an ENABLE_WRITE followed by a flash status read whose write-enabled bit
\* (mask 0b10) was set; when that bit was clear the operation has raised, with
\* that read the last thing transmitted.
C10_ModifyOnlyWhenWriteEnabled ==
    op \in {"flash", "erase_flash"} =>
        /\ \A i \in 1..Len(log) :
              log[i].cmd \in ModifyingCommands =>
                  /\ i >= 3
                  /\ log[i - 1] = Cmd("READ_STATUS1", 2)
                  /\ log[i - 2].cmd = "ENABLE_WRITE"
        /\ error.msg = "Flash did not enter a writeable state!" =>
              /\ pc = "exit"
              /\ log[Len(log)] = Cmd("READ_STATUS1", 0)
              /\ log[Len(log) - 1].cmd = "ENABLE_WRITE"

\* The second page of a 257-byte bitstream has just been transmitted.
C10_Witness ==
    /\ op = "flash"
    /\ bitstream = 257
    /\ log # <<>>
    /\ log[Len(log)] = PageCmd("WRITE_PAGE", 256, 1)

\* C11: in flash(), the command that follows a WRITE_PAGE is a flash status
\* read that showed the busy bit clear (busy reads before it are repeated):
\* nothing else, neither the next page's ENABLE_WRITE nor the reconfiguration
\* trigger, comes between a WRITE_PAGE and that read; and the page statement is
\* complete only with the busy bit of the last status read clear.
C11_PageCompleteBeforeNext ==
    op = "flash" =>
        /\ \A i \in Positions("WRITE_PAGE") :
              i < Len(log) => log[i + 1] = Cmd("READ_STATUS1", 0)
        /\ (pc = "fl_page" /\ sub = "done") =>
              /\ BitAnd(flash_status, SPI_FLASH_BUSY_MASK) = 0
              /\ log[Len(log)] = Cmd("READ_STATUS1", 0)
              /\ log[Len(log) - 1].cmd = "WRITE_PAGE"

\* Two pages were written and the reconfiguration trigger has been issued.
C11_Witness ==
    /\ op = "flash"
    /\ Cardinality(Positions("WRITE_PAGE")) = 2
    /\ InLog("LSC_REFRESH")

\* C12: for a bitstream of L >= 1 bytes, the k-th WRITE_PAGE of flash() (k from
\* 0) carries the address bytes of 256 * k, big-endian, and min(256, L - 256 * k)
\* data bytes, which are the bytes of the bitstream from offset 256 * k on (the
\* page in hand starts at offset address, and what is not yet taken is the rest
\* of the bitstream); each WRITE_PAGE follows an ENABLE_WRITE and its status
\* read; once the programming loop is over there are exactly ceil(L / 256)
\* WRITE_PAGE commands, each followed by its busy-clear status read.
PageIndex(i) == Cardinality({j \in Positions("WRITE_PAGE") : j < i})
PagesOf(L) == (L + SPI_FLASH_PAGE_SIZE - 1) \div SPI_FLASH_PAGE_SIZE
C12_PagesCoverBitstream ==
    op = "flash" =>
        /\ \A i \in Positions("WRITE_PAGE") :
              LET k == PageIndex(i) IN
              /\ bitstream >= 1
              /\ k < PagesOf(bitstream)
              /\ log[i].arg = <<0, k, 0>>
              /\ log[i].len = Min(SPI_FLASH_PAGE_SIZE, bitstream - SPI_FLASH_PAGE_SIZE * k)
              /\ log[i - 2].cmd = "ENABLE_WRITE"
              /\ log[i - 1].cmd = "READ_STATUS1"
        /\ pc = "fl_page" =>
              /\ address = SPI_FLASH_PAGE_SIZE * Cardinality(Positions("WRITE_PAGE")
                               \ (IF sub \in {"fw_wait", "done"} THEN {Len(log), Len(log) - 1} ELSE {}))
              /\ address + chunk + data_remaining = bitstream
              /\ chunk >= 1
        /\ (pc \in {"fl_reconf", "exit"} /\ error.at \notin {"fl_enter", "fl_read_id",
                                            "fl_protect", "fl_erase", "fl_page"}) =>
              /\ Cardinality(Positions("WRITE_PAGE")) = PagesOf(bitstream)
              /\ \A i \in Positions("WRITE_PAGE") : log[i + 1] = Cmd("READ_STATUS1", 0)
              /\ Cardinality(Positions("ENABLE_WRITE")) =
                     PagesOf(bitstream) + (IF erase_first THEN 1 ELSE 0)
                                        + (IF disable_protections THEN 1 ELSE 0)

\* flash() of 257 bytes has returned, with pages written at 0 and at 256.
C12_Witness ==
    /\ Exited("flash")
    /\ error.kind = "none"
    /\ bitstream = 257
    /\ \E i, j \in Positions("WRITE_PAGE") :
          /\ i < j
          /\ log[i] = PageCmd("WRITE_PAGE", 0, 256)
          /\ log[j] = PageCmd("WRITE_PAGE", 256, 1)

\* C13: flash() triggers reconfiguration (the PROGRAM strobe when there is a
\* pin, and LSC_REFRESH) at most once, and exactly once when it returns normally;
\* the trigger comes after every WRITE_PAGE and after the busy-clear status read
\* of the last one, with all pages written; a flash() that raised before the
\* end of programming has not triggered reconfiguration.
Triggers == Positions("LSC_REFRESH") \cup Positions("PROGRAM_LOW")
BeforeTrigger == {"fl_enter", "fl_read_id", "fl_protect", "fl_erase", "fl_page"}
C13_ReconfigureOnceAtEnd ==
    op = "flash" =>
        /\ Cardinality(Positions("LSC_REFRESH")) <= 1
        /\ Cardinality(Positions("PROGRAM_LOW")) <= 1
        /\ \A r \in Triggers :
              /\ Cardinality(Positions("WRITE_PAGE")) = PagesOf(bitstream)
              /\ \A i \in Positions("WRITE_PAGE") :
                    /\ i + 1 < r
                    /\ log[i + 1] = Cmd("READ_STATUS1", 0)
        /\ (Exited("flash") /\ error.kind = "none") =>
              Cardinality(Positions("LSC_REFRESH")) = 1
        /\ error.at \in BeforeTrigger => Triggers = {}

\* flash() of 257 bytes has returned after triggering reconfiguration.
C13_Witness ==
    /\ Exited("flash")
    /\ error.kind = "none"
    /\ bitstream = 257
    /\ Cardinality(Positions("WRITE_PAGE")) = 2
    /\ Cardinality(Positions("LSC_REFRESH")) = 1

\* C14: as long as the bridge has answered every transfer of a read_flash(length)
\* with as many bytes as were sent: the k-th READ_PAGE (k from 0) carries the
\* address bytes of 256 * k, big-endian, and asks for min(256, length - 256 * k)
\* bytes; the data read so far are the responses, in order, each without its
\* first four bytes; a read_flash() that returns has made ceil(length / 256)
\* READ_PAGE transfers and returns exactly length bytes. And the call ends,
\* unless the bridge answers a transfer short.
ReadPageIndex(i) == Cardinality({j \in Positions("READ_PAGE") : j < i})
C14_Pages ==
    (op = "read_flash" /\ BridgeFull) =>
        /\ Len(responses) = Cardinality(Positions("READ_PAGE"))
        /\ \A i \in Positions("READ_PAGE") :
              LET k == ReadPageIndex(i) IN
              /\ k < PagesOf(length)
              /\ log[i].arg = <<0, k, 0>>
              /\ log[i].len = Min(SPI_FLASH_PAGE_SIZE, length - SPI_FLASH_PAGE_SIZE * k)
              /\ responses[k + 1].sent = 4 + log[i].len
        /\ Len(data) = Min(length, SPI_FLASH_PAGE_SIZE * Len(responses))
        /\ \A i \in 1..Len(data) :
              data[i] = responses[((i - 1) \div SPI_FLASH_PAGE_SIZE) + 1].raw[
                            ((i - 1) % SPI_FLASH_PAGE_SIZE) + 5]
        /\ (Exited("read_flash") /\ error.kind = "none") =>
              /\ Len(data) = length
              /\ Cardinality(Positions("READ_PAGE")) = PagesOf(length)
C14_ReadFlashPages ==
    /\ []C14_Pages
    /\ (op = "read_flash") ~> (pc = "exit" \/ ~BridgeFull)

\* read_flash(257) has returned 257 bytes read in two transfers.
C14_Witness ==
    /\ Exited("read_flash")
    /\ error.kind = "none"
    /\ BridgeFull
    /\ length = 257
    /\ Len(responses) = 2
    /\ Len(data) = 257

\* C15: for the 4-byte response r to the JEDEC-ID transfer, read_flash_id()
\* returns manufacturer = r[1] and full_id = r[1] * 2^16 + r[2] * 2^8 + r[3]
\* (indices from 0): full_id is below 2^24, its most significant byte is the
\* manufacturer, and r[0] has no part in either value.
C15_FlashIdFromResponse ==
    vout.called =>
        LET r == vin.raw_id IN
        /\ vout.manufacturer = r[2]
        /\ vout.full_id = r[2] * 65536 + r[3] * 256 + r[4]
        /\ vout.full_id < 2 ^ 24
        /\ vout.full_id \div 65536 = vout.manufacturer

\* read_flash_id() has returned for the response ff a5 3f 01.
C15_Witness ==
    /\ vout.called
    /\ vin.raw_id = <<255, 165, 63, 1>>
    /\ vout.manufacturer = 165
    /\ vout.full_id = 10829569

\* C16: what erase_flash() has transmitted is always a beginning of: the entry
\* into background SPI, the status read that ends the wait before enabling,
\* ENABLE_WRITE, a status read with the write-enabled bit set, CHIP_ERASE, and a
\* status read with the busy bit clear (busy reads before it are repeated).
\* CHIP_ERASE is sent at most once; when the status read after ENABLE_WRITE has
\* the write-enabled bit clear the call raises there; and the call returns
\* normally only with the whole sequence sent, the busy-clear read last.
EraseSequence ==
    BackgroundSpiEntry \o <<Cmd("READ_STATUS1", 0), Cmd("ENABLE_WRITE", 8),
                            Cmd("READ_STATUS1", 2), Cmd("CHIP_ERASE", 8),
                            Cmd("READ_STATUS1", 0)>>
C16_EraseFlashOrder ==
    op = "erase_flash" =>
        /\ Len(log) <= Len(EraseSequence)
        /\ Cardinality(Positions("CHIP_ERASE")) <= 1
        /\ \A i \in 1..Len(log) :
              \/ log[i] = EraseSequence[i]
              \/ /\ i = Len(log)
                 /\ log[i] = Cmd("READ_STATUS1", 0)
                 /\ log[i - 1].cmd = "ENABLE_WRITE"
                 /\ error.msg = "Flash did not enter a writeable state!"
        /\ (Exited("erase_flash") /\ error.kind = "none") => log = EraseSequence

\* erase_flash() has returned normally.
C16_Witness ==
    /\ Exited("erase_flash")
    /\ error.kind = "none"
    /\ InLog("CHIP_ERASE")
    /\ log[Len(log)] = Cmd("READ_STATUS1", 0)

\* C17: the configuration commands unconfigure() has issued are always a
\* beginning of LSC_REFRESH (the restart), ISC_ENABLE, ISC_ERASE, ISC_DISABLE,
\* once each; the pre-configuration hook runs between the restart and
\* ISC_ENABLE; ISC_ERASE is followed by its busy wait before anything else; the
\* bitstream burst is never issued; and an unconfigure() that has returned
\* normally has issued all four, ISC_DISABLE last, followed only by the status
\* read of that command and its idle cycles.
IsConfigurationCommand(e) ==
    e.cmd \in {"LSC_REFRESH", "0x1C", "ISC_ENABLE", "ISC_ERASE", "LSC_SET_WORKING_ADDRESS",
               "LSC_BITSTREAM_BURST", "NO_OP", "ISC_DISABLE"}
UnconfigureCommands ==
    <<Cmd("LSC_REFRESH", 0), Cmd("ISC_ENABLE", 8), Cmd("ISC_ERASE", 8), Cmd("ISC_DISABLE", 0)>>
C17_UnconfigureOrder ==
    op = "unconfigure" =>
        LET issued == SelectSeq(log, IsConfigurationCommand) IN
        /\ Len(issued) <= Len(UnconfigureCommands)
        /\ issued = SubSeq(UnconfigureCommands, 1, Len(issued))
        /\ ~InLog("LSC_BITSTREAM_BURST")
        /\ pc = "un_preconfig" => Len(issued) = 1
        /\ pc = "un_restart" => Len(issued) <= 1
        /\ \A i \in Positions("ISC_ERASE") :
              i < Len(log) => log[i + 1].cmd = "LSC_CHECK_BUSY"
        /\ (Exited("unconfigure") /\ error.kind = "none") =>
              /\ issued = UnconfigureCommands
              /\ SubSeq(log, Len(log) - 2, Len(log)) =
                     <<Cmd("ISC_DISABLE", 0), Cmd("LSC_READ_STATUS", 32), Cmd("RUN_TEST", 2)>>

\* unconfigure() has returned normally.
C17_Witness ==
    /\ Exited("unconfigure")
    /\ error.kind = "none"
    /\ InLog("ISC_ERASE")
    /\ InLog("ISC_DISABLE")

\* C18: _generate_bit_reversed_bitstream keeps the length; applied once, byte i
\* of the result is a byte of the input (the same position without
\* byte_reverse, the mirrored position with it) with bit k and bit 7 - k
\* exchanged; applied twice, with byte_reverse or without, it gives back the
\* input.
BitOf(x, k) == (x \div (2 ^ k)) % 2
BitsMirrored(a, b) == \A k \in 0..7 : BitOf(a, k) = BitOf(b, 7 - k)
C18_TransformIsInvolution ==
    LET b == vin.bitstream
        n == Len(vin.bitstream)
    IN  /\ vout.calls >= 1 => Len(vout.value) = n
        /\ vout.calls = 1 =>
              \A i \in 1..n :
                  /\ vout.value[i] \in 0..255
                  /\ BitsMirrored(vout.value[i],
                                  IF vin.byte_reverse THEN b[n + 1 - i] ELSE b[i])
        /\ vout.calls = 2 => vout.value = b

\* The transform with byte_reverse, applied twice to 01 3f 80.
C18_Witness ==
    /\ vout.calls = 2
    /\ vin.byte_reverse
    /\ vin.bitstream = <<1, 63, 128>>
    /\ vout.value = <<1, 63, 128>>

\* C19 as claimed: _background_spi_transfer(d) shifts 8 * len(d) bits, the
\* payload byte-reversed then bit-reversed per byte, and hands back the captured
\* response after the same reversal: byte order reversed and the bits of each
\* byte reversed.
C19_ResponseSameReversal ==
    (vout.called /\ ~vin.reverse) =>
        LET n == Len(vin.data) IN
        /\ vout.length = 8 * n
        /\ Len(vout.tdi) = n
        /\ \A i \in 1..n : BitsMirrored(vout.tdi[i], vin.data[n + 1 - i])
        /\ Len(vout.value) = n
        /\ \A i \in 1..n : BitsMirrored(vout.value[i], vin.captured[n + 1 - i])

\* C19 as amended: _background_spi_transfer(d) shifts 8 * len(d) bits, the
\* payload byte-reversed then bit-reversed per byte; of the captured response it
\* reverses the bits of each byte and keeps the byte order: byte i handed back
\* is byte i as captured, bits mirrored.
C19_ResponseBitReversedOnly ==
    (vout.called /\ ~vin.reverse) =>
        LET n == Len(vin.data) IN
        /\ vout.length = 8 * n
        /\ Len(vout.tdi) = n
        /\ \A i \in 1..n : BitsMirrored(vout.tdi[i], vin.data[n + 1 - i])
        /\ Len(vout.value) = n
        /\ \A i \in 1..n : BitsMirrored(vout.value[i], vin.captured[i])

\* The transfer of 01 3f 80 with a5 00 01 captured has handed back a5 00 80.
C19_Witness ==
    /\ vout.called
    /\ ~vin.reverse
    /\ vin.data = <<1, 63, 128>>
    /\ vin.captured = <<165, 0, 1>>
    /\ vout.tdi = <<1, 252, 128>>
    /\ vout.value = <<165, 0, 128>>

\* C20: on every exit of transfer(), by return or by an exception of the data
\* shift, forced bit-bang mode is off again, so no later caller of the chain
\* finds it on.
C20_BitbangOffAfterTransfer ==
    (Exited("transfer") \/ op = "none") => ~bitbang

\* transfer() has exited with a transport error of the data shift.
C20_ShiftDataRaised ==
    Exited("transfer") /\ error = TransportError("tr_shift_data")

\* C30: once configure(b) has shifted its LSC_BITSTREAM_BURST, for b of n
\* bytes, the call has shifted one burst only, one LSC_BITSTREAM_BURST command
\* is in its log, and the data of the burst has n bytes, byte i being b[n+1-i]
\* with its eight bits in the opposite order (bytes counted from 1).
C30_BurstIsReversedBitstream ==
    (op = "configure" /\ InLog("LSC_BITSTREAM_BURST"))
        => /\ Len(burst) = 1
           /\ Cardinality(Positions("LSC_BITSTREAM_BURST")) = 1
           /\ Len(burst[1]) = bitstream
           /\ \A i \in 1..bitstream :
                 BitsMirrored(burst[1][i], Bitstream(bitstream)[bitstream + 1 - i])

C30_Witness ==
    /\ Exited("configure")
    /\ error = NoError
    /\ bitstream > SPI_FLASH_PAGE_SIZE
    /\ Len(burst) = 1

\* C25: once configure() has read a part ID of 0x00000000 or 0xFFFFFFFF, it has
\* raised the IOError of _capture_part_id, READ_ID is the last command of the
\* call, and the call issues no 0x1C write, ISC_ENABLE, ISC_ERASE or bitstream
\* burst.
C25_NoDeviceStopsConfigure ==
    (/\ op = "configure"
     /\ InLog("READ_ID")
     /\ part_id \in {<<0, 0, 0, 0>>, <<255, 255, 255, 255>>})
        => /\ error.kind = "IOError"
           /\ error.at = "cfg_capture_id"
           /\ pc \in {"cfg_finally", "exit"}
           /\ log[Len(log)].cmd = "READ_ID"
           /\ \A c \in {"0x1C", "ISC_ENABLE", "ISC_ERASE", "LSC_BITSTREAM_BURST"} : ~InLog(c)
           /\ burst = <<>>

C25_Witness ==
    /\ Exited("configure")
    /\ InLog("READ_ID")
    /\ part_id = <<0, 0, 0, 0>>
    /\ error.kind = "IOError"

\* C26: in configure(), unconfigure(), erase_flash() and flash(), once a step
\* has raised, the call is in its finally block or at its exit, and from then
\* on it keeps the error and issues no command: the only thing it still does
\* before returning to the caller is, in configure(), writing the idle LED
\* pattern.
RetryFreeMethods == {"configure", "unconfigure", "erase_flash", "flash"}
Failed == op \in RetryFreeMethods /\ error # NoError
C26_NoRetryAfterFailure ==
    /\ [](Failed => pc \in {"cfg_finally", "exit"})
    /\ [][Failed =>
            \/ /\ log' = log
               /\ error' = error
               /\ op' = op
               /\ \/ leds' = leds
                  \/ op = "configure" /\ pc = "cfg_finally"
                        /\ leds' = Append(leds, LED_PATTERN_IDLE)
            \/ pc = "exit" /\ op' = "none"]_vars

C26_Witness ==
    /\ Exited("flash")
    /\ error.kind = "IOError"
    /\ InLog("WRITE_PAGE")

\* C28: with continue_anyway false, _validate_status raises exactly when bit
\* 13 (fail), bit 27 (ID error) or bit 28 (invalid command) of the status is
\* set, or expect_done holds and bit 8 (done) is clear, or expect_isc holds and
\* bit 9 (isc enable) is clear; the error code (bits 23 to 25) and the busy
\* (12), spi-fail (22) and execution-fail (26) bits have no part in it.
C28_Raises ==
    \/ BitOf(vin.status, 13) = 1
    \/ BitOf(vin.status, 27) = 1
    \/ BitOf(vin.status, 28) = 1
    \/ vin.expect_done /\ BitOf(vin.status, 8) = 0
    \/ vin.expect_isc /\ BitOf(vin.status, 9) = 0
C28_RaisesExactlyOnFlags ==
    (vout.called /\ ~vin.continue_anyway)
        => (vout.error.kind = "IOError" <=> C28_Raises)

\* _validate_status has returned normally, continue_anyway false, for a status
\* with error code 3 and the busy, spi-fail and execution-fail bits set.
C28_Witness ==
    /\ vout.called
    /\ ~vin.continue_anyway
    /\ ~vin.expect_done
    /\ ~vin.expect_isc
    /\ vout.error.kind = "none"
    /\ BitOf(vin.status, 12) = 1
    /\ BitOf(vin.status, 22) = 1
    /\ BitOf(vin.status, 26) = 1
    /\ (vin.status \div 8388608) % 8 = 3

\* C29: a restart of configuration uses one method: with a PROGRAM pin the
\* pin is strobed and no LSC_REFRESH is issued; the pin is strobed only when
\* there is one.
C29_OneRestartMethod ==
    /\ programPin => ~InLog("LSC_REFRESH")
    /\ InLog("PROGRAM_LOW") => programPin

\* A restart has strobed the PROGRAM pin and then issued LSC_REFRESH.
C29_BothMethods ==
    \E i, j \in 1..Len(log) :
        i < j /\ log[i].cmd = "PROGRAM_HIGH" /\ log[j].cmd = "LSC_REFRESH"

\* C27: flash() accepts the byte offset the flash-program command passes: the
\* command's call flash(bitstream, offset=offset) does not end in a TypeError.
C27_FlashAcceptsOffset ==
    Exited("program_flash") => error.kind # "TypeError"

\* The flash-program command has ended at its call of flash() without a single
\* flash command issued.
C27_OffsetRejected ==
    /\ Exited("program_flash")
    /\ error = TypeError("offset", "pf_flash")
    /\ bitstream > 0
    /\ log = <<>>

\* C21: once the auto-detection of a register_transaction has probed both
\* registers, each detected width is the number of ones the register shifted
\* out before its first zero, and 0 when the probe held no zero; when a detected
\* width is 0 or not a multiple of 8 the call has raised at the shape check
\* without shifting a word, and otherwise the shape check has not raised.
Usable(w) == w > 0 /\ w % 8 = 0
Detected(ones) == IF ones < PROBE_LENGTH THEN ones ELSE 0
C21_WidthsDetected ==
    (op = "register_transaction" /\ transaction.detected)
        => /\ data_width = Detected(vin.data)
           /\ instruction_width = Detected(vin.instruction)
           /\ (~Usable(Detected(vin.data)) \/ ~Usable(Detected(vin.instruction)))
                 => /\ pc \in {"rt_release", "exit"}
                    /\ error.at \in {"rt_check", "rt_release"}
                    /\ error.kind \in {"IOError", "TransportError"}
                    /\ error.kind = "IOError" <=> error.at = "rt_check"
                    /\ ~InLog("SHIFT_WORD")
           /\ (Usable(Detected(vin.data)) /\ Usable(Detected(vin.instruction)))
                 => error.at # "rt_check"

\* A transaction has detected a 16-bit data register and an 8-bit instruction
\* register and returned.
C21_Witness ==
    /\ Exited("register_transaction")
    /\ transaction.detected
    /\ error = NoError
    /\ vin.data = 16
    /\ vin.instruction = 8
    /\ data_width = 16
    /\ instruction_width = 8

\* C22: whenever a register_transaction has shifted an address or value word,
\* both widths of the bridge are non-zero multiples of 8.
C22_WordsOnlyWithUsableWidths ==
    (op = "register_transaction" /\ InLog("SHIFT_WORD"))
        => Usable(instruction_width) /\ Usable(data_width)

\* A transaction that ran no detection has shifted both words through a
\* bridge whose detected data width is 12.
C22_ShiftAfterFailedDetection ==
    /\ Exited("register_transaction")
    /\ ~transaction.detected
    /\ transaction.done
    /\ error = NoError
    /\ data_width = 12
    /\ instruction_width = 8

\* C23: a read of an address that returns normally right after a write of v to
\* the same address returned normally, on the same bridge, returns v.
C23_WriteReadRoundTrip ==
    (/\ Exited("register_transaction")
     /\ error = NoError
     /\ ~transaction.is_write
     /\ transaction.previous.ok
     /\ transaction.previous.is_write
     /\ transaction.previous.address = transaction.address)
        => transaction.result = transaction.previous.value

\* A read has returned 165 from the highest address of a 16-bit instruction
\* register right after 165 was written there.
C23_Witness ==
    /\ Exited("register_transaction")
    /\ error = NoError
    /\ ~transaction.is_write
    /\ transaction.previous.ok
    /\ transaction.previous.is_write
    /\ transaction.previous.address = transaction.address
    /\ transaction.address = 32767
    /\ transaction.result = 165

\* C24: the command word a register_transaction shifts has as many bits as
\* the instruction width; its first (most significant) bit is 1 exactly when
\* is_write, and the bits after it are the address, for an address below
\* 2^(width-1).
C24_CommandWord ==
    (op = "register_transaction" /\ pc = "rt_data")
        => /\ Len(transaction.command) = instruction_width
           /\ instruction_width > 0 =>
                 /\ transaction.command[1] = 1 <=> transaction.is_write
                 /\ int_base2(Tail(transaction.command)) = transaction.address

\* A read of the highest address of an 8-bit instruction register has shifted
\* its command word.
C24_Witness ==
    /\ op = "register_transaction"
    /\ pc = "rt_data"
    /\ instruction_width = 8
    /\ ~transaction.is_write
    /\ transaction.address = 127
    /\ transaction.command = <<0, 1, 1, 1, 1, 1, 1, 1>>

\* C31: once both widths of a bridge are non-zero multiples of 8, no step of
\* any register_transaction changes either width, moves the TAP to RESET or
\* shifts a width probe.
C31_WidthsDetectedOnce ==
    [][(Usable(instruction_width) /\ Usable(data_width))
          => /\ instruction_width' = instruction_width
             /\ data_width' = data_width
             /\ pc' \notin {"rt_reset", "rt_probe_data", "rt_probe_instruction"}
             /\ \A i \in (Len(log) + 1)..Len(log') :
                   log'[i].cmd \notin {"MOVE_TO_STATE", "SHIFT_DATA"}]_vars

\* A write has returned without any detection, after an earlier transaction
\* returned, on a bridge that holds a 16-bit data and an 8-bit instruction
\* width.
C31_Witness ==
    /\ Exited("register_transaction")
    /\ error = NoError
    /\ transaction.previous.ok
    /\ transaction.done
    /\ transaction.is_write
    /\ ~transaction.detected
    /\ ~InLog("MOVE_TO_STATE")
    /\ ~InLog("SHIFT_DATA")
    /\ data_width = 16
    /\ instruction_width = 8

\* C32: in a register_transaction that detects the widths, the move of the TAP
\* to RESET is the first command after the chain is taken, every probe shift
\* directly follows the shift of its opcode, and every shift of the
\* instruction opcode comes after the RESET and after a completed probe of the
\* data register (the data opcode directly followed by a 128-bit shift).
C32_DataProbedFirst ==
    (op = "register_transaction" /\ InLog("MOVE_TO_STATE"))
        => /\ Positions("MOVE_TO_STATE") = {2}
           /\ log[1].cmd = "JTAG_START"
           /\ \A i \in Positions("SHIFT_DATA") :
                 /\ log[i].arg = PROBE_LENGTH
                 /\ i > 2
                 /\ log[i - 1].cmd = "SHIFT_IR"
           /\ \A i \in Positions("SHIFT_IR") :
                 log[i].arg = OPCODE_INSTRUCTION
                    => \E j \in 3..(i - 2) :
                          /\ log[j] = Cmd("SHIFT_IR", OPCODE_DATA)
                          /\ log[j + 1] = Cmd("SHIFT_DATA", PROBE_LENGTH)

\* A detection has reset the TAP, probed the data register and then the
\* instruction register, and stands before its shape check.
C32_Witness ==
    /\ op = "register_transaction"
    /\ pc = "rt_check"
    /\ log = <<Cmd("JTAG_START", 0), Cmd("MOVE_TO_STATE", 0),
               Cmd("SHIFT_IR", OPCODE_DATA), Cmd("SHIFT_DATA", PROBE_LENGTH),
               Cmd("SHIFT_IR", OPCODE_INSTRUCTION), Cmd("SHIFT_DATA", PROBE_LENGTH)>>

\* C33: every step that validates a status, in configure() or in the status
\* check of a command, starts when the last command issued is not a status
\* read, issues LSC_READ_STATUS itself as the newest command, and raises or
\* goes on exactly as _validate_status decides on the value that read
\* returned; only a failure of the transport ends such a step otherwise. So
\* each validation has a read of its own and no value is validated twice.
Validating == pc \in StatusSteps \/ (pc \in CommandSteps /\ sub = "check")
C33_StatusReadFresh ==
    [][Validating =>
          /\ log # <<>>
          /\ log[Len(log)].cmd # "LSC_READ_STATUS"
          /\ \/ /\ error'.kind = "TransportError"
                /\ log' = log
             \/ /\ log' = Append(log, Cmd("LSC_READ_STATUS", 8 * STATUS_REGISTER_LENGTH))
                /\ status' \in StatusValues
                /\ LET k == IF pc \in StatusSteps THEN StatusCheck(pc)
                            ELSE [expect_done |-> FALSE, continue_anyway |-> FALSE,
                                  expect_isc |-> FALSE]
                       e == validate_status(status', k.expect_done, k.continue_anyway,
                                            k.expect_isc, pc)
                   IN  IF e.kind # "none"
                       THEN error' = e /\ pc' = RaiseTarget(op, pc)
                       ELSE error' = error /\ <<pc, sub>>' # <<pc, sub>>]_vars

\* configure() has returned normally: its four status checks and the two
\* checks of its commands each issued a status read of their own.
C33_Witness ==
    /\ Exited("configure")
    /\ error = NoError
    /\ Cardinality(Positions("LSC_READ_STATUS")) = 6
    /\ HasFlag(status, STATUS_FLAG_DONE)

\* C34: in flash() and read_flash(), when the last byte of the READ_ID
\* response is 0x00 or 0xFF the call has raised at that check having issued
\* nothing but the entry into background SPI and the READ_ID transfer; and any
\* ENABLE_WRITE, WRITE_STATUS1, CHIP_ERASE, WRITE_PAGE, READ_PAGE or
\* reconfiguration of the call comes after a READ_ID whose last byte is
\* neither.
ContentCommands ==
    {"ENABLE_WRITE", "WRITE_STATUS1", "CHIP_ERASE", "WRITE_PAGE", "READ_PAGE",
     "LSC_REFRESH", "PROGRAM_LOW"}
C34_FlashPresenceChecked ==
    op \in {"flash", "read_flash"}
        => /\ \A i \in Positions("FLASH_READ_ID") :
                 log[i].last \in {0, 255}
                    => /\ log = BackgroundSpiEntry \o <<ReadIdCmd(log[i].last)>>
                       /\ pc = "exit"
                       /\ error.kind = "IOError"
                       /\ error.at \in {"fl_read_id", "rf_read_id"}
           /\ \A j \in 1..Len(log) :
                 log[j].cmd \in ContentCommands
                    => \E i \in Positions("FLASH_READ_ID") :
                          i < j /\ log[i].last \notin {0, 255}

\* flash() has raised on a READ_ID response ending in 0xFF.
C34_Witness ==
    /\ Exited("flash")
    /\ error.kind = "IOError"
    /\ error.at = "fl_read_id"
    /\ log = BackgroundSpiEntry \o <<ReadIdCmd(255)>>

\* read_flash() has raised on a READ_ID response ending in 0x00.
C34_WitnessRead ==
    /\ Exited("read_flash")
    /\ error.kind = "IOError"
    /\ error.at = "rf_read_id"
    /\ log = BackgroundSpiEntry \o <<ReadIdCmd(0)>>

\* C35: every background SPI transfer a call has issued comes after the
\* LSC_ENTER_BACKGROUND_SPI instruction directly followed by the shift of the
\* two bytes 0x68 0xFE, and every flash opcode after the reset sequence: eight
\* 0xFF bytes, then 0x66, then 0x99. A flash operation that has started has
\* issued the instruction first.
ResetTransfers == {"FLASH_NOP", "FLASH_RESET_ENABLE", "FLASH_RESET"}
FlashOpcodes ==
    {"FLASH_READ_ID", "FLASH_READ_JEDEC_ID", "READ_STATUS1", "ENABLE_WRITE",
     "WRITE_STATUS1", "CHIP_ERASE", "WRITE_PAGE", "READ_PAGE"}
C35_BackgroundSpiEnteredFirst ==
    /\ \A j \in 1..Len(log) :
          log[j].cmd \in ResetTransfers \cup FlashOpcodes
             => \E i \in 1..(j - 2) :
                   /\ log[i] = Cmd("LSC_ENTER_BACKGROUND_SPI", 8)
                   /\ log[i + 1].cmd = "SPI_UNLOCK_CODE"
                   /\ log[i + 1].arg = 16
                   /\ log[i + 1].tdi = <<104, 254>>
    /\ \A j \in 1..Len(log) :
          log[j].cmd \in FlashOpcodes
             => \E i \in 1..(j - 3) :
                   /\ log[i].cmd = "FLASH_NOP"
                   /\ log[i].tdi = <<255, 255, 255, 255, 255, 255, 255, 255>>
                   /\ log[i + 1].cmd = "FLASH_RESET_ENABLE"
                   /\ log[i + 1].tdi = <<102>>
                   /\ log[i + 2].cmd = "FLASH_RESET"
                   /\ log[i + 2].tdi = <<153>>
    /\ (op \in {"flash", "erase_flash", "read_flash"} /\ log # <<>>)
          => log[1] = Cmd("LSC_ENTER_BACKGROUND_SPI", 8)

\* erase_flash() has returned after its CHIP_ERASE.
C35_Witness ==
    /\ Exited("erase_flash")
    /\ error = NoError
    /\ InLog("CHIP_ERASE")
    /\ log[2].tdi = <<104, 254>>

\* C36: while a flash command of the command-line tool runs, its unconfigure()
\* call has issued nothing for the flash and the command has not gone past
\* it; once the command is past it, unconfigure() was called, returned without
\* an exception and had issued its whole sequence up to ISC_DISABLE. So a
\* command whose unconfigure() fails issues no flash operation.
FlashTraffic ==
    \E i \in 1..Len(log) :
       log[i].cmd \in ResetTransfers \cup FlashOpcodes
                      \cup {"LSC_ENTER_BACKGROUND_SPI", "SPI_UNLOCK_CODE"}
C36_UnconfiguredBeforeFlash ==
    cli_command.name \in CliCommands
        => /\ op = "unconfigure"
                 => /\ ~cli_command.unconfigure.called
                    /\ ~FlashTraffic
           /\ (op # "unconfigure" \/ FlashTraffic)
                 => /\ cli_command.unconfigure.called
                    /\ cli_command.unconfigure.error = NoError
                    /\ \E i, j, k, l \in 1..Len(cli_command.unconfigure.issued) :
                          LET issued == cli_command.unconfigure.issued IN
                          /\ i < j /\ j < k /\ k < l
                          /\ issued[i].cmd = "LSC_REFRESH"
                          /\ issued[j].cmd = "ISC_ENABLE"
                          /\ issued[k].cmd = "ISC_ERASE"
                          /\ issued[l].cmd = "ISC_DISABLE"

\* flash-erase has erased the chip after its unconfigure() returned.
C36_Witness ==
    /\ cli_command.name = "flash-erase"
    /\ cli_command.unconfigure.called
    /\ Exited("erase_flash")
    /\ error = NoError
    /\ InLog("CHIP_ERASE")

\* The unconfigure() of flash-read has failed: the command is over.
C36_WitnessFailed ==
    /\ cli_command.name = "flash-read"
    /\ Exited("unconfigure")
    /\ error # NoError
    /\ ~cli_command.unconfigure.called

\* C37: a constructed debugger of an external board (major 0xFF) or of r0.1 or
\* r0.2 (major 0, minor below 3) has one DebugSPIConnection as both spi and
\* registers; of any other revision it has an ECP5_JTAGDebugSPIConnection as
\* spi and an ECP5_JTAGRegisters as registers, both over its JTAG chain; and
\* no step after the construction changes spi or registers.
Constructed == op = "ApolloDebugger" /\ pc = "exit" /\ error = NoError
HardSpiRevision ==
    \/ vin.bcdDevice \div 256 = 255
    \/ vin.bcdDevice \div 256 = 0 /\ vin.bcdDevice % 256 < 3
Selection ==
    IF HardSpiRevision
    THEN /\ vout.spi.class = "DebugSPIConnection"
         /\ vout.registers = vout.spi
    ELSE /\ vout.spi.class = "ECP5_JTAGDebugSPIConnection"
         /\ vout.registers.class = "ECP5_JTAGRegisters"
         /\ vout.spi.chain = vout.jtag.id
         /\ vout.registers.chain = vout.jtag.id
         /\ vout.jtag.class = "JTAGChain"
         /\ vout.spi.id # vout.registers.id
C37_SpiVariantSelectedOnce ==
    [][/\ Constructed' => Selection'
       /\ Constructed => /\ vout.spi' = vout.spi
                         /\ vout.registers' = vout.registers]_vars

\* A debugger of an r0.2 board has been constructed and create_jtag_spi
\* called on it since.
C37_Witness ==
    /\ Constructed
    /\ vin.bcdDevice = 2
    /\ vout.created > 0
    /\ vout.spi.class = "DebugSPIConnection"
    /\ vout.registers = vout.spi

\* A debugger of an r1.4 board has been constructed with the tunnelled pair.
C37_WitnessTunnel ==
    /\ Constructed
    /\ vin.bcdDevice = 260
    /\ vout.spi.class = "ECP5_JTAGDebugSPIConnection"
    /\ vout.registers.class = "ECP5_JTAGRegisters"

\* C38: in a construction without a device, a handoff request was made only
\* when no Apollo device was found, a stub device was found and force_offline
\* is true; when no stub device is found, or one is found and force_offline
\* is false, the construction has raised DebuggerNotFound without a handoff
\* request; a construction that is over after a handoff request has either
\* found an Apollo device or raised DebuggerNotFound; and a constructed
\* debugger has a device.
HandoffRequested == vout.handoff \in {"sent", "usb_error_transfer"}
C38_HandoffOnlyWhenForced ==
    (op = "ApolloDebugger" /\ ~vin.device_given)
        => /\ vout.handoff # "none"
                 => /\ vout.apollo = "none"
                    /\ vout.stub = "found"
                    /\ vin.force_offline
           /\ (vout.stub = "none" \/ (vout.stub = "found" /\ ~vin.force_offline))
                 => /\ pc = "exit"
                    /\ error.kind = "DebuggerNotFound"
                    /\ vout.handoff = "none"
           /\ (HandoffRequested /\ pc = "exit")
                 => \/ error = NoError /\ vout.device = "apollo"
                    \/ error.kind = "DebuggerNotFound"
           /\ Constructed => vout.device = "apollo"

\* After a handoff request was sent, the second search for the Apollo device
\* has let a USBError through: the construction is over with an exception
\* that is not DebuggerNotFound.
C38_UsbErrorAfterHandoff ==
    /\ op = "ApolloDebugger"
    /\ pc = "exit"
    /\ ~vin.device_given
    /\ vin.force_offline
    /\ vout.handoff = "sent"
    /\ vout.again = "usb_error"
    /\ error.kind = "USBError"
    /\ error.at = "dbg_find_again"

\* C39: in the SPIStreamController, chip-select is 1 exactly when the FSM is
\* not in IDLE and the clock is 0 in every state but SHIFT; the FSM enters
\* IDLE only from END; it enters END only from SHIFT in a cycle with a falling
\* clock edge that is the eighth since a byte was accepted with its last flag
\* set; it enters WAIT only at the eighth falling edge of a byte accepted
\* without the last flag while the input is not valid, and stays in WAIT, with
\* chip-select asserted, for as long as the input is not valid.
ControllerOutputs ==
    /\ bus_cs(vout) = 1 <=> vout.fsm # "IDLE"
    /\ vout.fsm # "SHIFT" => bus_sck(vout) = 0
    /\ vout.fsm = "WAIT" => bus_cs(vout) = 1
EighthFall == vout.sck_d = 1 /\ bus_sck(vout) = 0 /\ vout.falls = 7
ControllerSteps ==
    /\ (vout'.fsm = "IDLE" /\ vout.fsm # "IDLE") => vout.fsm = "END"
    /\ (vout'.fsm = "END" /\ vout.fsm # "END")
          => vout.fsm = "SHIFT" /\ EighthFall /\ vout.accepted_last
    /\ (vout'.fsm = "WAIT" /\ vout.fsm # "WAIT")
          => /\ vout.fsm = "SHIFT" /\ EighthFall
             /\ ~vout.accepted_last /\ ~vin.stream.valid
    /\ (vout.fsm = "WAIT" /\ ~vin.stream.valid) => vout'.fsm = "WAIT"
C39_ChipSelectHeldForPacket == []ControllerOutputs /\ [][ControllerSteps]_vars

\* The controller waits, chip-select asserted and the clock low, after the
\* first byte of a packet whose next byte has not arrived.
C39_Witness ==
    /\ vout.fsm = "WAIT"
    /\ bus_cs(vout) = 1
    /\ bus_sck(vout) = 0
    /\ vout.falls = 8
    /\ ~vout.accepted_last
    /\ ~vin.stream.valid

\* C40: the advertiser output changes only in a sync cycle in which the timer
\* is 0 and stop is not asserted, and changes in every such cycle, so that
\* while it runs two toggles are half_period sync cycles apart; a usb cycle in
\* which a vendor request to the advertiser's interface with request number
\* 0xF0 is in its status stage sets stop; stop once set stays set, and the
\* output never changes while stop is set.
AdvertiserSteps ==
    /\ pad_o(vout') # pad_o(vout)
          => /\ vout'.ticked \in {"sync", "both"}
             /\ vout.timer = 0
             /\ ~vout.stop
             /\ vout.toggled => vout.since = vin.half_period - 1
    /\ (vout'.ticked \in {"sync", "both"} /\ vout.timer = 0 /\ ~vout.stop)
          => pad_o(vout') # pad_o(vout)
    /\ ( /\ vout'.ticked \in {"usb", "both"}
         /\ vin.interface.setup = [type |-> "VENDOR", recipient |-> "INTERFACE",
                                    index |-> vin.if_number, request |-> 240]
         /\ vin.interface.status_requested )
          => vout'.stop
    /\ vout.stop => vout'.stop /\ pad_o(vout') = pad_o(vout)
C40_AdvertisementStopsForGood == [][AdvertiserSteps]_vars

\* The advertiser has toggled, was stopped with its output high, and has
\* since let a whole half-period pass on a timer of 0 without toggling.
C40_Witness ==
    /\ vout.stop
    /\ vout.toggled
    /\ pad_o(vout) = 1
    /\ vout.since = vin.half_period
    /\ vout.timer = 0
    /\ vout.ticked = "sync"
    /\ vin.half_period = MaxHalfPeriod

====
